---- MODULE Spec2Model ----
(***************************************************************************)
(* A model of the discovery -> parallel deep-dive -> streaming pipeline of *)
(* the Startup Scout backend:                                              *)
(*   my_agents/deep_dive_agent.py   _enrich_company, deep_dive_parallel    *)
(*   my_agents/final_agents.py      _deep_dive_single, deep_dive_all,      *)
(*                                  run_pipeline                           *)
(*   backend/main2.py, main.py      run_agent_and_stream                   *)
(* Python dicts are functions from string keys to string values; None is   *)
(* the value NoneV.                                                        *)
(***************************************************************************)
EXTENDS Integers, Sequences, FiniteSets, TLC

VARIABLES
    entry,          \* the entry point this run exercises
    \* ---- deep_dive_parallel (deep_dive_agent.py) ----
    companies,      \* the `companies` argument: a sequence of company dicts
    attributes,     \* the `attributes` argument
    max_workers,    \* the `max_workers` argument
    llm,            \* module global `llm`: TRUE when an LLM is configured
    llmOut,         \* what llm.invoke yields for the task of company i
    dpc,            \* position of the calling thread
    submitted,      \* number of executor.submit calls made so far
    fut,            \* state of each submitted future
    gathered,       \* futures the as_completed loop has already handled
    results,        \* the local list `results`
    ret,            \* the returned list (set when dpc = "done")
    \* ---- run_pipeline, deep_dive_all (final_agents.py) ----
    reqAttrs,       \* the `attributes` argument: [given, list]; not given = None
    ppc,            \* position inside run_pipeline
    pAttrs,         \* the local `attributes` handed to deep_dive_all
    search,         \* the LinkupSearchResponse the discovery agent's tool got
    found,          \* `companies`: what discovery returned
    task,           \* per company: state of its _deep_dive_single task
    details,        \* per company: <<response>>, or <<>> for None
    pResults,       \* the list run_pipeline returns (set when ppc = "returned")
    \* ---- run_agent_and_stream (backend/main2.py, backend/main.py) ----
    request,        \* criteria, location and funding_stage of the request
    spc,            \* position inside the generator
    thesis,         \* the local `investment_thesis`, as a sequence of parts
    sresults,       \* the local `results`, a Python value
    events,         \* the server-sent events yielded so far
    \* ---- find_companies, linkup_startup_search (discovery_agent.py) ----
    hasAgent,       \* module globals `llm` / `discovery_agent` are configured
    fpc,            \* position inside find_companies
    answer,         \* outcome of the last client.search call of the tool
    xkind,          \* kind of the last extraction output of the LLM
    fret,           \* the list find_companies returns (set when fpc = "returned")
    \* ---- the search-client wrappers ----
    wpc,            \* "call" before the wrapper is called, "returned" after
    wrapper,        \* the wrapper called
    wret,            \* what the wrapper returned
    \* ---- two concurrent requests (backend/main2.py) ----
    runs,   \* the frames of two concurrent run_agent_and_stream calls
    \* ---- the chat endpoints (backend/main2.py) ----
    chatReq,   \* message and conversation_history of the chat request
    agentOut,   \* what conversational_agent.invoke does for this request
    cpc,   \* position inside chat_stream_generator
    cmessages,   \* the local `messages` of chat_stream_generator
    tool_used,   \* the local `tool_used` of chat_stream_generator
    cevents,   \* the server-sent events chat_stream_generator yielded
    syncMessages,   \* the local `messages` of chat_sync
    syncRet,   \* what chat_sync returned
    \* ---- the JSON extraction steps ----
    reply,   \* the content of an LLM reply
    jsite,   \* the extraction step the reply reached
    jout,   \* what the extraction step produced
    \* ---- the chat page (frontend/streamlit_app.py) ----
    messages,   \* st.session_state.messages
    processing,   \* st.session_state.processing
    enhanced_query,   \* st.session_state.enhanced_query
    user_input,   \* the content of the text box
    conversation_history,   \* st.session_state.conversation_history
    current_conversation_id,   \* None is <<>>
    created,   \* serial of each entry of conversation_history
    active,   \* serial of the conversation on screen
    nextSerial   \* the next serial

parVars == <<companies, attributes, max_workers, llm, llmOut, dpc, submitted,
             fut, gathered, results, ret>>

pipeVars == <<reqAttrs, ppc, pAttrs, search, found, task, details, pResults>>

streamVars == <<request, spc, thesis, sresults, events>>

discVars == <<hasAgent, fpc, answer, xkind, fret>>

wrapVars == <<wpc, wrapper, wret>>

runVars == <<runs>>

chatVars == <<chatReq, agentOut, cpc, cmessages, tool_used, cevents, syncMessages, syncRet>>

jsonVars == <<reply, jsite, jout>>

uiVars == <<messages, processing, enhanced_query, user_input, conversation_history, current_conversation_id, created, active, nextSerial>>

vars == <<entry, parVars, pipeVars, streamVars, discVars, wrapVars, runVars, chatVars, jsonVars, uiVars>>

(***************************************************************************)
(* Bounds of the model.                                                    *)
(***************************************************************************)
MaxCompanies == 5
MaxWorkers == 2
MaxVaried == 2
MaxFound == 4

(***************************************************************************)
(* Python values.                                                          *)
(***************************************************************************)
NoneV == "<None>"

EmptyDict == [k \in {} |-> NoneV]

\* dict.get(key, default)
Get(d, key, default) == IF key \in DOMAIN d THEN d[key] ELSE default

\* truthiness of a string-or-None value
Truthy(v) == v # NoneV /\ v # ""

\* a or b
PyOr(a, b) == IF Truthy(a) THEN a ELSE b

\* d[key] = value
SetItem(d, key, value) ==
    [k \in DOMAIN d \cup {key} |-> IF k = key THEN value ELSE d[k]]

(***************************************************************************)
(* Inputs: company dicts as the discovery stages produce them, attribute   *)
(* lists, and the outcomes of one llm.invoke call.                         *)
(***************************************************************************)
CompanyPool == <<
    [k \in {"Company Name", "Website", "Description", "Location", "Industry",
            "Funding Stage"} |->
        CASE k = "Company Name" -> "Acme"
          [] k = "Website" -> "acme.io"
          [] k = "Description" -> "payments"
          [] k = "Location" -> "Berlin"
          [] k = "Industry" -> "fintech"
          [] OTHER -> "Seed"],
    [k \in {"name", "url", "country"} |->
        CASE k = "name" -> "Bolt"
          [] k = "url" -> "bolt.io"
          [] OTHER -> "DE"],
    [k \in {"Company Name", "Website"} |->
        CASE k = "Company Name" -> "Core"
          [] OTHER -> "N/A"] >>

AttrLists == { <<>>, <<"Founders", "Description">> }

\* llm.invoke: it raises (timeout included), or returns text in which the
\* regex finds no object, or an object that json.loads rejects, or an object
\* that parses to `data`.
LlmPool == <<
    [kind |-> "json",
     data |-> [k \in {"Description", "Founders"} |->
                 IF k = "Description" THEN "neobank" ELSE NoneV]],
    [kind |-> "raise", data |-> EmptyDict],
    [kind |-> "json",
     data |-> [k \in {"Location", "Founders", "Industry"} |->
                 CASE k = "Location" -> "Munich"
                   [] k = "Founders" -> "Ann"
                   [] OTHER -> ""]],
    [kind |-> "badjson", data |-> EmptyDict],
    [kind |-> "nojson", data |-> EmptyDict] >>

PoolAt(pool, i, off) == pool[((i + off) % Len(pool)) + 1]

(***************************************************************************)
(* _enrich_company                                                         *)
(***************************************************************************)
\* lines 181-218: the LLM extraction step; every failure leaves {}.
EnrichedData(hasLlm, out) ==
    IF hasLlm /\ out.kind = "json" THEN out.data ELSE EmptyDict

\* lines 230-233: for attr in attributes: if attr not in result: ...
RECURSIVE AddAttributes(_, _, _)
AddAttributes(result, enriched_data, attrs) ==
    IF attrs = <<>> THEN result
    ELSE LET attr == Head(attrs)
             next == IF attr \in DOMAIN result THEN result
                     ELSE SetItem(result, attr, Get(enriched_data, attr, "N/A"))
         IN AddAttributes(next, enriched_data, Tail(attrs))

enrich_company(company, attrs, hasLlm, out) ==
    LET company_name == Get(company, "Company Name", Get(company, "name", "Unknown"))
        company_website == Get(company, "Website", Get(company, "url", "N/A"))
        company_desc == Get(company, "Description", "")
        company_location == Get(company, "Location", "N/A")
        company_industry == Get(company, "Industry", "N/A")
        company_funding == Get(company, "Funding Stage", "N/A")
        enriched_data == EnrichedData(hasLlm, out)
        result ==
            [k \in {"Company Name", "Website", "Description", "Location",
                    "Industry", "Funding Stage"} |->
                CASE k = "Company Name" -> company_name
                  [] k = "Website" -> company_website
                  [] k = "Description" ->
                       PyOr(PyOr(Get(enriched_data, "Description", company_desc),
                                 company_desc), "N/A")
                  [] k = "Location" ->
                       PyOr(PyOr(Get(enriched_data, "Location", company_location),
                                 company_location), "N/A")
                  [] k = "Industry" ->
                       PyOr(PyOr(Get(enriched_data, "Industry", company_industry),
                                 company_industry), "N/A")
                  [] OTHER ->
                       PyOr(PyOr(Get(enriched_data, "Funding Stage", company_funding),
                                 company_funding), "N/A")]
    IN AddAttributes(result, enriched_data, attrs)

(***************************************************************************)
(* deep_dive_parallel: a ThreadPoolExecutor of max_workers threads, one    *)
(* future per company, gathered with as_completed.                         *)
(***************************************************************************)
NCompanies == Len(companies)

Running == {i \in 1..submitted : fut[i] = "running"}

Finished == {i \in 1..submitted : fut[i] \in {"done", "raised"}}

\* Mutant of GatherRecord: one raised future spoils the data of its siblings.
GatherRecordSiblingsLost(i) ==
    IF \E j \in 1..submitted : fut[j] = "raised"
    THEN companies[i]
    ELSE enrich_company(companies[i], attributes, llm, llmOut[i])

\* Mutant of GatherRecord: the tasks read their company through one shared
\* cursor that the gathering loop advances.
GatherRecordSharedCursor(i) ==
    IF fut[i] = "done"
    THEN enrich_company(companies[Cardinality(gathered) + 1], attributes, llm,
                        llmOut[Cardinality(gathered) + 1])
    ELSE companies[i]

\* what the as_completed loop appends for future i
GatherRecord(i) ==
    IF fut[i] = "done"
    THEN enrich_company(companies[i], attributes, llm, llmOut[i])
    ELSE companies[i]

\* Mutant of GatherAppend: nothing is appended for a future that raised.
GatherAppendDropFailed(res, i) ==
    IF fut[i] = "raised" THEN res ELSE Append(res, GatherRecord(i))

\* lines 274-283: the enriched dict, or on an exception the original company
GatherAppend(res, i) == Append(res, GatherRecord(i))

\* Every combination of inputs for up to MaxVaried companies; beyond that the
\* inputs are one fixed combination and only the scheduling varies.
ParStart ==
    /\ \E n \in 0..MaxCompanies, off \in 0..(Len(CompanyPool) - 1) :
          /\ n > MaxVaried => off = 0
          /\ companies = [i \in 1..n |-> PoolAt(CompanyPool, i, off)]
          /\ llmOut = [i \in 1..n |-> PoolAt(LlmPool, i, off)]
          /\ fut = [i \in 1..n |-> "new"]
          /\ attributes \in AttrLists
          /\ llm \in BOOLEAN
          /\ n > MaxVaried => (llm /\ attributes # <<>>)
    /\ max_workers \in 1..MaxWorkers
    /\ dpc = "submit"
    /\ submitted = 0
    /\ gathered = {}
    /\ results = <<>>
    /\ ret = <<>>

\* executor.submit(_enrich_company, c, investment_thesis, attributes)
Submit ==
    /\ dpc = "submit"
    /\ submitted < NCompanies
    /\ submitted' = submitted + 1
    /\ fut' = [fut EXCEPT ![submitted + 1] = "queued"]
    /\ UNCHANGED <<companies, attributes, max_workers, llm, llmOut, dpc,
                   gathered, results, ret>>
    /\ UNCHANGED <<entry, uiVars, jsonVars, chatVars, runVars, discVars, wrapVars, pipeVars, streamVars>>

\* the dict comprehension is complete; the as_completed loop starts
BeginGather ==
    /\ dpc = "submit"
    /\ submitted = NCompanies
    /\ dpc' = "gather"
    /\ UNCHANGED <<companies, attributes, max_workers, llm, llmOut, submitted,
                   fut, gathered, results, ret>>
    /\ UNCHANGED <<entry, uiVars, jsonVars, chatVars, runVars, discVars, wrapVars, pipeVars, streamVars>>

\* a pool thread takes the oldest queued work item
WorkerStart ==
    /\ \E i \in 1..submitted :
          /\ fut[i] = "queued"
          /\ \A j \in 1..(i - 1) : fut[j] # "queued"
          /\ Cardinality(Running) < max_workers
          /\ fut' = [fut EXCEPT ![i] = "running"]
    /\ UNCHANGED <<companies, attributes, max_workers, llm, llmOut, dpc,
                   submitted, gathered, results, ret>>
    /\ UNCHANGED <<entry, uiVars, jsonVars, chatVars, runVars, discVars, wrapVars, pipeVars, streamVars>>

\* _enrich_company returns, or an exception escapes it
WorkerFinish ==
    /\ \E i \in Running, raised \in BOOLEAN :
          fut' = [fut EXCEPT ![i] = IF raised THEN "raised" ELSE "done"]
    /\ UNCHANGED <<companies, attributes, max_workers, llm, llmOut, dpc,
                   submitted, gathered, results, ret>>
    /\ UNCHANGED <<entry, uiVars, jsonVars, chatVars, runVars, discVars, wrapVars, pipeVars, streamVars>>

\* one iteration of `for future in as_completed(futures)`
Gather ==
    /\ dpc = "gather"
    /\ \E i \in Finished \ gathered :
          /\ results' = GatherAppend(results, i)
          /\ gathered' = gathered \cup {i}
    /\ UNCHANGED <<companies, attributes, max_workers, llm, llmOut, dpc,
                   submitted, fut, ret>>
    /\ UNCHANGED <<entry, uiVars, jsonVars, chatVars, runVars, discVars, wrapVars, pipeVars, streamVars>>

\* the loop is exhausted, the executor shuts down, `return results`
Return ==
    /\ dpc = "gather"
    /\ gathered = 1..NCompanies
    /\ dpc' = "done"
    /\ ret' = results
    /\ UNCHANGED <<companies, attributes, max_workers, llm, llmOut, submitted,
                   fut, gathered, results>>
    /\ UNCHANGED <<entry, uiVars, jsonVars, chatVars, runVars, discVars, wrapVars, pipeVars, streamVars>>

NextPar ==
    \/ Submit
    \/ BeginGather
    \/ WorkerStart
    \/ WorkerFinish
    \/ Gather
    \/ Return

\* deep_dive_parallel is not the entry point of this run
ParIdle ==
    /\ companies = <<>>
    /\ llmOut = <<>>
    /\ fut = <<>>
    /\ attributes = <<>>
    /\ llm = FALSE
    /\ max_workers = 1
    /\ dpc = "idle"
    /\ submitted = 0
    /\ gathered = {}
    /\ results = <<>>
    /\ ret = <<>>

(***************************************************************************)
(* final_agents.py: run_pipeline = discovery, deep_dive_all, conversion.   *)
(***************************************************************************)
\* the default attribute list of run_pipeline
FixedSchema == <<"name", "url", "country", "description", "founding_year",
                 "funding_stage", "ARR", "market_sector">>

\* lines 212-216: only an absent argument is replaced by the default
DefaultAttributes(attrs) == IF ~attrs.given THEN FixedSchema ELSE attrs.list

\* CompanyInfo records the discovery agent may return
FoundPool == { [name |-> "Acme", url |-> "acme.io", country |-> "DE"],
               [name |-> "Bolt", url |-> "bolt.io", country |-> "Unknown"] }

FoundLists == UNION { [1..n -> FoundPool] : n \in 0..MaxFound }

\* the i-th company of a long discovery answer
FoundAt(i) ==
    IF i % 2 = 1 THEN [name |-> "Acme", url |-> "acme.io", country |-> "DE"]
    ELSE [name |-> "Bolt", url |-> "bolt.io", country |-> "Unknown"]

NotGiven == [given |-> FALSE, list |-> <<>>]

ReqAttrLists == { NotGiven } \cup
    { [given |-> TRUE, list |-> l] :
        l \in { <<>>, <<"name", "ARR">>, <<"Founders", "url">> } }

\* AttributeResult (reasoning and source_url are not read by the pipeline)
AR(a, v) == [attribute |-> a, value_found |-> v]

\* CompanyDeepDiveResponse objects the deep-dive agent may produce for a
\* startup: the LLM decides every field, the company and url included.
\* global_relevance_score is written as a numeral string.
Responses(startup) == {
    [company |-> startup.name, url |-> startup.url,
     global_relevance_score |-> "85",
     attributes |-> <<AR("name", startup.name), AR("url", startup.url),
                      AR("description", "payments"),
                      AR("ARR", "Unknown - no public data available")>>],
    [company |-> startup.name, url |-> startup.url,
     global_relevance_score |-> "20",
     attributes |-> <<>>],
    [company |-> startup.name, url |-> startup.url,
     global_relevance_score |-> "60",
     attributes |-> <<AR("Founders", "Ann"), AR("country", "DE"),
                      AR("country", "Germany")>>],
    [company |-> "Zeta", url |-> "zeta.io",
     global_relevance_score |-> "70",
     attributes |-> <<AR("description", "lending")>>],
    [company |-> startup.name, url |-> startup.url,
     global_relevance_score |-> "75",
     attributes |-> <<AR("name", "Zeta"), AR("url", "zeta.io")>>] }

\* {a.attribute: a.value_found for a in details.attributes}: the last wins
RECURSIVE AttrDict(_)
AttrDict(attrResults) ==
    IF attrResults = <<>> THEN EmptyDict
    ELSE LET n == Len(attrResults)
         IN SetItem(AttrDict(SubSeq(attrResults, 1, n - 1)),
                    attrResults[n].attribute, attrResults[n].value_found)

\* lines 235-246: the dict appended for one deep-dive response
ResultDict(d) ==
    LET attr_dict == AttrDict(d.attributes)
    IN [k \in {"name", "url", "country", "description", "founding_year",
               "funding_stage", "ARR", "market_sector",
               "global_relevance_score"} |->
           CASE k = "name" -> Get(attr_dict, "name", d.company)
             [] k = "url" -> Get(attr_dict, "url", d.url)
             [] k = "global_relevance_score" -> d.global_relevance_score
             [] OTHER -> Get(attr_dict, k, "Unknown")]

\* lines 232-246: `if details:` skips the None of a failed deep dive
RECURSIVE ConvertDetails(_)
ConvertDetails(details_list) ==
    IF details_list = <<>> THEN <<>>
    ELSE LET rest == ConvertDetails(Tail(details_list))
         IN IF Head(details_list) # <<>>
            THEN <<ResultDict(Head(details_list)[1])>> \o rest
            ELSE rest

(***************************************************************************)
(* linkup_tools.py: linkup_search, the tool behind the discovery agent.    *)
(* `results` is <<list>>, or <<>> for None.                                *)
(***************************************************************************)
NoSearch == [success |-> FALSE, results |-> <<>>, error |-> "not called"]

\* what happens inside linkup_search: the SDK is missing, client.search
\* raises (HTTP 500, timeout, bad or absent key), or it returns a response
\* whose normalised dict has or lacks a "results" entry
SearchOutcomes == {"no_sdk", "search_raises", "results", "no_results_key"}

SearchFailed(o) == o \in {"no_sdk", "search_raises"}

\* lines 75-112
linkup_search(o) ==
    CASE o = "no_sdk" ->
           [success |-> FALSE, results |-> <<>>, error |-> "ImportError"]
      [] o = "search_raises" ->
           [success |-> FALSE, results |-> <<>>, error |-> "HTTP 500"]
      [] o = "results" ->
           [success |-> TRUE, results |-> << <<"hit">> >>, error |-> NoneV]
      [] OTHER ->
           [success |-> TRUE, results |-> <<>>, error |-> NoneV]

\* Mutant of AfterDiscovery: the empty list is not short-circuited.
AfterDiscoveryNoEmptyCheck(cs) == "fanout"

\* lines 225-226: `if not companies: return []`
AfterDiscovery(cs) == IF cs = <<>> THEN "returned" ELSE "fanout"

NFound == Len(found)

InFlight == {i \in 1..NFound : task[i] = "running"}

\* run_pipeline is not running
PipeIdle ==
    /\ ppc = "idle"
    /\ pAttrs = <<>>
    /\ search = NoSearch
    /\ found = <<>>
    /\ task = <<>>
    /\ details = <<>>
    /\ pResults = <<>>

\* run_pipeline.invoke({...}): lines 212-216, then the discovery call is made
PipeStart ==
    /\ reqAttrs \in ReqAttrLists
    /\ ppc = "discovery"
    /\ pAttrs = DefaultAttributes(reqAttrs)
    /\ search = NoSearch
    /\ found = <<>>
    /\ task = <<>>
    /\ details = <<>>
    /\ pResults = <<>>

\* lines 220-226: discovery_agent.invoke searches through linkup_search and
\* answers with its companies (the answer is the LLM's: after a failed search
\* it is empty or, against its prompt, a single company); an empty list ends
\* the pipeline, otherwise deep_dive_all creates one task per company.
\* Every list of up to MaxVaried companies is tried; a longer one is the
\* list FoundAt.
Discovery ==
    /\ ppc = "discovery"
    /\ \E o \in SearchOutcomes, cs \in FoundLists :
          /\ SearchFailed(o) => Len(cs) <= 1
          /\ Len(cs) > MaxVaried => cs = [i \in 1..Len(cs) |-> FoundAt(i)]
          /\ search' = linkup_search(o)
          /\ found' = cs
          /\ ppc' = AfterDiscovery(cs)
          /\ task' = [i \in 1..Len(cs) |-> "new"]
          /\ details' = [i \in 1..Len(cs) |-> <<>>]
          /\ pResults' = <<>>
    /\ UNCHANGED <<entry, uiVars, jsonVars, chatVars, runVars, discVars, wrapVars, parVars, streamVars, reqAttrs, pAttrs>>

\* lines 220-223: discovery_agent.invoke raises, or has no structured_response
DiscoveryRaises ==
    /\ ppc = "discovery"
    /\ ppc' = "raised"
    /\ UNCHANGED <<entry, uiVars, jsonVars, chatVars, runVars, discVars, wrapVars, parVars, streamVars, reqAttrs, pAttrs, search, found, task,
                   details, pResults>>

\* line 229: asyncio.run refuses to start (a loop is already running)
FanoutRaises ==
    /\ ppc = "fanout"
    /\ \A i \in 1..NFound : task[i] = "new"
    /\ ppc' = "raised"
    /\ UNCHANGED <<entry, uiVars, jsonVars, chatVars, runVars, discVars, wrapVars, parVars, streamVars, reqAttrs, pAttrs, search, found, task,
                   details, pResults>>

\* lines 195-199: gather schedules every _deep_dive_single at once
FanoutStart ==
    /\ ppc = "fanout"
    /\ \A i \in 1..NFound : task[i] = "new"
    /\ task' = [i \in 1..NFound |-> "running"]
    /\ UNCHANGED <<entry, uiVars, jsonVars, chatVars, runVars, discVars, wrapVars, parVars, streamVars, reqAttrs, ppc, pAttrs, search, found,
                   details, pResults>>

\* Mutant of DeepDiveReturns: the answers are stored in completion order,
\* as as_completed would yield them.
DeepDiveReturnsInCompletionOrder ==
    /\ ppc = "fanout"
    /\ \E i \in InFlight :
          \E r \in Responses(found[i]) :
             LET k == Cardinality({j \in 1..NFound : task[j] = "done"}) + 1
             IN /\ NFound > MaxVaried => r.global_relevance_score = "85"
                /\ details' = [details EXCEPT ![k] = <<r>>]
                /\ task' = [task EXCEPT ![i] = "done"]
    /\ UNCHANGED <<entry, uiVars, jsonVars, chatVars, runVars, discVars, wrapVars, parVars, streamVars, reqAttrs, ppc,
                   pAttrs, search, found, pResults>>

\* lines 183-188: the deep-dive agent answers for company i (in a fan-out
\* of more than MaxVaried companies, with its first kind of answer only)
DeepDiveReturns ==
    /\ ppc = "fanout"
    /\ \E i \in InFlight :
          \E r \in Responses(found[i]) :
             /\ NFound > MaxVaried => r.global_relevance_score = "85"
             /\ details' = [details EXCEPT ![i] = <<r>>]
             /\ task' = [task EXCEPT ![i] = "done"]
    /\ UNCHANGED <<entry, uiVars, jsonVars, chatVars, runVars, discVars, wrapVars, parVars, streamVars, reqAttrs, ppc, pAttrs, search, found,
                   pResults>>

\* lines 189-191: the deep dive of company i raises and yields None
DeepDiveFails ==
    /\ ppc = "fanout"
    /\ \E i \in InFlight :
          /\ details' = [details EXCEPT ![i] = <<>>]
          /\ task' = [task EXCEPT ![i] = "done"]
    /\ UNCHANGED <<entry, uiVars, jsonVars, chatVars, runVars, discVars, wrapVars, parVars, streamVars, reqAttrs, ppc, pAttrs, search, found,
                   pResults>>

\* lines 229-248: gather has every result; convert and return
PipeReturn ==
    /\ ppc = "fanout"
    /\ NFound > 0
    /\ \A i \in 1..NFound : task[i] = "done"
    /\ pResults' = ConvertDetails(details)
    /\ ppc' = "returned"
    /\ UNCHANGED <<entry, uiVars, jsonVars, chatVars, runVars, discVars, wrapVars, parVars, streamVars, reqAttrs, pAttrs, search, found, task,
                   details>>

NextPipe ==
    \/ Discovery
    \/ DiscoveryRaises
    \/ FanoutRaises
    \/ FanoutStart
    \/ DeepDiveReturns
    \/ DeepDiveFails
    \/ PipeReturn

(***************************************************************************)
(* backend/main2.py: run_agent_and_stream, the SSE generator of /run_scout. *)
(* A Python value is [type, items]; an item is [type, d].                  *)
(***************************************************************************)
PyDictItem(d) == [type |-> "dict", d |-> d]
PyStrItem == [type |-> "str", d |-> EmptyDict]
PyNoneItem == [type |-> "NoneType", d |-> EmptyDict]

PyList(items) == [type |-> "list", items |-> items]
PyNone == [type |-> "NoneType", items |-> <<>>]

RECURSIVE PyDictItems(_)
PyDictItems(dicts) ==
    IF dicts = <<>> THEN <<>>
    ELSE <<PyDictItem(Head(dicts))>> \o PyDictItems(Tail(dicts))

RECURSIVE ItemDicts(_)
ItemDicts(items) ==
    IF items = <<>> THEN <<>>
    ELSE <<Head(items).d>> \o ItemDicts(Tail(items))

\* str.lower() on the funding stages a request may carry
Lower(str) == IF str \in {"Any", "ANY", "any"} THEN "any" ELSE str

\* lines 182-186
BuildThesis(req) ==
    <<req.criteria>>
    \o (IF req.location # "" THEN <<" in ", req.location>> ELSE <<>>)
    \o (IF req.funding_stage # "" /\ Lower(req.funding_stage) # "any"
        THEN <<", ", req.funding_stage, " stage">> ELSE <<>>)

Requests == {
    [criteria |-> "fintech startups", location |-> "", funding_stage |-> ""],
    [criteria |-> "fintech startups", location |-> "Berlin", funding_stage |-> "Any"],
    [criteria |-> "fintech startups", location |-> "Berlin", funding_stage |-> "Seed"] }

\* lines 200-204: a non-list result is coerced
Normalize(v) ==
    IF v.type = "list" THEN v
    ELSE IF v.type = "NoneType" THEN PyList(<<>>)
    ELSE IF v.type = "dict" THEN PyList(v.items)
    ELSE v

\* len(results) at lines 211-212 is defined for these types only
HasLen(v) == v.type \in {"list", "str", "tuple", "dict"}

\* line 217: c.items() exists on a dict only
AllDicts(v) == \A i \in 1..Len(v.items) : v.items[i].type = "dict"

\* Mutant of CleanDict: None values are left as they are.
CleanDictKeepsNone(c) == c

\* line 217
CleanDict(c) == [k \in DOMAIN c |-> IF c[k] # NoneV THEN c[k] ELSE "N/A"]

RECURSIVE CleanItems(_)
CleanItems(items) ==
    IF items = <<>> THEN <<>>
    ELSE <<PyDictItem(CleanDict(Head(items).d))>> \o CleanItems(Tail(items))

StatusEvent(tag, arg) == [event |-> "status", data |-> <<tag, arg>>]

CompleteEvent(res) ==
    [event |-> "complete", data |-> [success |-> TRUE, results |-> res]]

\* a generator that has not been called
StreamIdle ==
    /\ request = [criteria |-> "", location |-> "", funding_stage |-> ""]
    /\ spc = "idle"
    /\ thesis = <<>>
    /\ sresults = PyList(<<>>)
    /\ events = <<>>

StreamStart ==
    /\ request \in Requests
    /\ spc = "start"
    /\ thesis = <<>>
    /\ sresults = PyList(<<>>)
    /\ events = <<>>

\* line 177
YieldStarting ==
    /\ entry # "run_scout_main"
    /\ spc = "start"
    /\ events' = Append(events, StatusEvent("starting", <<>>))
    /\ spc' = "thesis"
    /\ UNCHANGED <<entry, uiVars, jsonVars, chatVars, runVars, discVars, wrapVars, parVars, pipeVars, request, thesis, sresults>>

\* lines 182-193
YieldSearching ==
    /\ spc = "thesis"
    /\ thesis' = BuildThesis(request)
    /\ events' = Append(events, StatusEvent("searching", BuildThesis(request)))
    /\ spc' = "try"
    /\ UNCHANGED <<entry, uiVars, jsonVars, chatVars, runVars, discVars, wrapVars, parVars, pipeVars, request, sresults>>

\* lines 196-199: the status, then final_agents.run_pipeline(thesis, attributes)
\* is called; under entry "run_scout" its body runs, under "run_scout_stub"
\* the result is supplied by StubResult
CallPipeline ==
    /\ spc = "try"
    /\ sresults' = PyList(<<>>)
    /\ events' = Append(events, StatusEvent("running", <<>>))
    /\ spc' = "await"
    /\ IF entry = "run_scout"
       THEN /\ ppc' = "discovery"
            /\ pAttrs' = DefaultAttributes(reqAttrs)
       ELSE UNCHANGED <<ppc, pAttrs>>
    /\ UNCHANGED <<entry, uiVars, jsonVars, chatVars, runVars, discVars, wrapVars, parVars, reqAttrs, search, found, task, details,
                   pResults, request, thesis>>

\* lines 199-204: the awaited call delivers the list run_pipeline returned
AwaitReturns ==
    /\ spc = "await"
    /\ ppc = "returned"
    /\ sresults' = Normalize(PyList(PyDictItems(pResults)))
    /\ spc' = "found"
    /\ UNCHANGED <<entry, uiVars, jsonVars, chatVars, runVars, discVars, wrapVars, parVars, pipeVars, request, thesis, events>>

\* lines 205-209: run_pipeline raised, or awaiting its plain list raised
AwaitRaises ==
    /\ spc = "await"
    /\ ppc \in {"returned", "raised"}
    /\ sresults' = PyList(<<>>)
    /\ spc' = "found"
    /\ UNCHANGED <<entry, uiVars, jsonVars, chatVars, runVars, discVars, wrapVars, parVars, pipeVars, request, thesis, events>>

\* lines 211-212: len(results) raises out of the generator for a value
\* without a length
YieldFound ==
    /\ spc = "found"
    /\ IF HasLen(sresults)
       THEN /\ events' = Append(events,
                               StatusEvent("found", <<Len(sresults.items)>>))
            /\ spc' = "clean"
       ELSE /\ spc' = "crashed"
            /\ UNCHANGED events
    /\ UNCHANGED <<entry, uiVars, jsonVars, chatVars, runVars, discVars, wrapVars, parVars, pipeVars, request, thesis, sresults>>

\* lines 215-222: c.items() raises out of the generator for a non-dict item
YieldCleaned ==
    /\ spc = "clean"
    /\ IF AllDicts(sresults)
       THEN /\ sresults' = PyList(CleanItems(sresults.items))
            /\ events' = Append(events,
                   StatusEvent("complete-found", <<Len(sresults.items)>>))
            /\ spc' = "final"
       ELSE /\ spc' = "crashed"
            /\ UNCHANGED <<sresults, events>>
    /\ UNCHANGED <<entry, uiVars, jsonVars, chatVars, runVars, discVars, wrapVars, parVars, pipeVars, request, thesis>>

\* lines 224-225
YieldComplete ==
    /\ spc = "final"
    /\ events' = Append(events, CompleteEvent(ItemDicts(sresults.items)))
    /\ spc' = "closed"
    /\ UNCHANGED <<entry, uiVars, jsonVars, chatVars, runVars, discVars, wrapVars, parVars, pipeVars, request, thesis, sresults>>

NextStream ==
    \/ YieldStarting
    \/ YieldSearching
    \/ CallPipeline
    \/ AwaitReturns
    \/ AwaitRaises
    \/ YieldFound
    \/ YieldCleaned
    \/ YieldComplete

(***************************************************************************)
(* run_agent_and_stream taken alone: the awaited pipeline call is a stub   *)
(* that may produce any Python value or raise.                             *)
(***************************************************************************)
SampleDict == [k \in {"name", "ARR"} |-> IF k = "name" THEN "Acme" ELSE NoneV]

OtherDict == [k \in {"name", "url"} |-> IF k = "name" THEN "Bolt" ELSE "bolt.io"]

StubValues == {
    PyList(<<>>),
    PyList(<<PyDictItem(SampleDict)>>),
    PyList(<<PyDictItem(OtherDict), PyDictItem(SampleDict)>>),
    [type |-> "dict", items |-> <<PyDictItem(SampleDict)>>],
    PyNone,
    [type |-> "str", items |-> <<>>],
    [type |-> "str", items |-> <<PyStrItem, PyStrItem>>],
    [type |-> "int", items |-> <<>>],
    [type |-> "tuple", items |-> <<PyDictItem(OtherDict)>>],
    PyList(<<PyDictItem(SampleDict), PyStrItem>>),
    PyList(<<PyNoneItem>>) }

\* lines 199-204 with the stubbed call returning `v`
StubReturns ==
    /\ entry = "run_scout_stub"
    /\ spc = "await"
    /\ \E v \in StubValues :
          sresults' = Normalize(v)
    /\ spc' = "found"
    /\ UNCHANGED <<entry, uiVars, jsonVars, chatVars, runVars, discVars, wrapVars, parVars, pipeVars, request, thesis, events>>

\* lines 205-209 with the stubbed call raising
StubRaises ==
    /\ entry = "run_scout_stub"
    /\ spc = "await"
    /\ sresults' = PyList(<<>>)
    /\ spc' = "found"
    /\ UNCHANGED <<entry, uiVars, jsonVars, chatVars, runVars, discVars, wrapVars, parVars, pipeVars, request, thesis, events>>

(***************************************************************************)
(* backend/main.py: run_agent_and_stream, a fixed script of events.        *)
(***************************************************************************)
MainStatuses == <<"setup", "discovery", "found-5", "analyzing-1",
                  "analyzing-2", "report", "sent">>

\* lines 165-177
MainYieldStatus ==
    /\ entry = "run_scout_main"
    /\ spc = "start"
    /\ Len(events) < Len(MainStatuses)
    /\ events' = Append(events, StatusEvent(MainStatuses[Len(events) + 1], <<>>))
    /\ UNCHANGED <<entry, uiVars, jsonVars, chatVars, runVars, discVars, wrapVars, parVars, pipeVars, request, spc, thesis, sresults>>

\* line 178
MainYieldComplete ==
    /\ entry = "run_scout_main"
    /\ spc = "start"
    /\ Len(events) = Len(MainStatuses)
    /\ events' = Append(events, CompleteEvent(<<>>))
    /\ spc' = "closed"
    /\ UNCHANGED <<entry, uiVars, jsonVars, chatVars, runVars, discVars, wrapVars, parVars, pipeVars, request, thesis, sresults>>

(***************************************************************************)
(* discovery_agent.py: the tool linkup_startup_search (one search call,    *)
(* then an LLM extraction) and find_companies (agent first, then the tool  *)
(* called directly).                                                       *)
(***************************************************************************)
MaxExtracted == 2

\* company dicts the extraction LLM may put in its JSON array
ExtractPool == {
    CompanyPool[1],
    [k \in {"Company Name", "Website"} |->
        IF k = "Company Name" THEN "Bolt" ELSE "bolt.io"],
    [k \in {"Company Name", "Website"} |->
        IF k = "Company Name" THEN "Zeta" ELSE "N/A"] }

ExtractLists == UNION { [1..n -> ExtractPool] : n \in 0..MaxExtracted }

\* client.search(...): it raises (HTTP 500, timeout, bad key, SDK missing),
\* or gives a response whose answer is None, or one whose answer text
\* mentions the company names `names`
NoAnswer == [kind |-> "not called", names |-> {}]

SearchAnswers ==
    { [kind |-> "raises", names |-> {}], [kind |-> "none_answer", names |-> {}] }
    \cup { [kind |-> "answer", names |-> ns] : ns \in SUBSET {"ACME", "Bolt"} }

\* the content of the extraction LLM's reply: llm.invoke raises, the text has
\* no [...] , the [...] is not JSON, it is an array of strings, or an array
\* of company dicts
ExtractionOutputs ==
    { [kind |-> k, items |-> <<>>] : k \in {"raise", "nojson", "badjson", "json_strs"} }
    \cup { [kind |-> "json", items |-> l] : l \in ExtractLists }

Malformed(kind) == kind \in {"nojson", "badjson", "json_strs"}

\* Mutant of Extract: the parsed items are used without the try block, so a
\* reply that is not the expected JSON yields whatever was salvaged.
ExtractUnguarded(x) ==
    IF x.kind = "json" THEN x.items ELSE <<CompanyPool[3]>>

\* lines 122-144: every failure of the extraction gives json.dumps([])
Extract(x) ==
    IF x.kind = "json" THEN x.items ELSE <<>>

\* lines 47-144: the import, client.search and len(answer_text) are outside
\* any try block
linkup_startup_search(hasLlm, s, x) ==
    IF s.kind \in {"raises", "none_answer"}
    THEN [raised |-> TRUE, out |-> <<>>]
    ELSE IF ~hasLlm
         THEN [raised |-> FALSE, out |-> <<>>]
         ELSE [raised |-> FALSE, out |-> Extract(x)]

\* find_companies is not running
DiscIdle ==
    /\ hasAgent = FALSE
    /\ fpc = "idle"
    /\ answer = NoAnswer
    /\ xkind = "none"
    /\ fret = <<>>

\* find_companies(investment_thesis): line 217 `if discovery_agent:`
DiscStart ==
    /\ hasAgent \in BOOLEAN
    /\ fpc = IF hasAgent THEN "agent" ELSE "fallback"
    /\ answer = NoAnswer
    /\ xkind = "none"
    /\ fret = <<>>

\* lines 218-259: discovery_agent.invoke raises, or its messages hold the
\* tool's JSON string (returned parsed), or a later message whose content
\* parses to a non-empty list (returned as it is), or nothing that parses
AgentInvoke ==
    /\ fpc = "agent"
    /\ \/ \E s \in SearchAnswers, x \in ExtractionOutputs :
             /\ ~linkup_startup_search(hasAgent, s, x).raised
             /\ answer' = s
             /\ xkind' = x.kind
             /\ fret' = linkup_startup_search(hasAgent, s, x).out
             /\ fpc' = "returned"
       \/ \E s \in (SearchAnswers \cup {NoAnswer}), l \in ExtractLists :
             /\ s.kind # "answer"
             /\ l # <<>>
             /\ answer' = s
             /\ xkind' = "ai_message"
             /\ fret' = l
             /\ fpc' = "returned"
       \/ /\ fpc' = "fallback"
          /\ UNCHANGED <<answer, xkind, fret>>
    /\ UNCHANGED <<entry, uiVars, jsonVars, chatVars, runVars, parVars, pipeVars, streamVars, wrapVars, hasAgent>>

\* lines 261-264: linkup_startup_search.invoke(thesis), outside any try block
Fallback ==
    /\ fpc = "fallback"
    /\ \E s \in SearchAnswers, x \in ExtractionOutputs :
          LET r == linkup_startup_search(hasAgent, s, x)
          IN /\ answer' = s
             /\ xkind' = IF s.kind = "answer" /\ hasAgent THEN x.kind ELSE "none"
             /\ fret' = r.out
             /\ fpc' = IF r.raised THEN "raised" ELSE "returned"
    /\ UNCHANGED <<entry, uiVars, jsonVars, chatVars, runVars, parVars, pipeVars, streamVars, wrapVars, hasAgent>>

NextDisc ==
    \/ AgentInvoke
    \/ Fallback

(***************************************************************************)
(* The search-client wrappers: discovery2.linkup_search_tool,              *)
(* linkup_tools.linkup_search_tool and the two /linkup_search endpoints.   *)
(* A wrapper is called with or without LINKUP_API_KEY in the environment   *)
(* and the HTTP/SDK call behind it has one of CallOutcomes.  What comes    *)
(* back is [raised, success, results], results being <<list>>, or <<>>     *)
(* when the response has no result list (None, or no "results" key).       *)
(***************************************************************************)
CallOutcomes == {"no_sdk", "throws", "non200", "ok_results", "ok_other"}

CallFailed(o) == o \in {"no_sdk", "throws", "non200"}

Hits == <<"hit">>

WrapReturn(success, res) ==
    [raised |-> FALSE, success |-> success, results |-> res]

\* Mutant of linkup_search_tool2: the request is made outside the try block.
linkup_search_tool2_unguarded(key, o) ==
    IF ~key THEN WrapReturn(TRUE, << <<>> >>)
    ELSE IF o = "throws" THEN [raised |-> TRUE, success |-> FALSE, results |-> <<>>]
    ELSE IF o = "ok_results" THEN WrapReturn(TRUE, <<Hits>>)
    ELSE WrapReturn(TRUE, << <<>> >>)

\* discovery2.py lines 42-66: a bare list in every case
linkup_search_tool2(key, o) ==
    IF ~key THEN WrapReturn(TRUE, << <<>> >>)
    ELSE IF o = "ok_results" THEN WrapReturn(TRUE, <<Hits>>)
    ELSE WrapReturn(TRUE, << <<>> >>)

\* linkup_tools.py lines 118-143: resp.model_dump() of linkup_search
linkup_search_tool(o) ==
    LET resp == linkup_search(
            CASE o = "no_sdk" -> "no_sdk"
              [] o \in {"throws", "non200"} -> "search_raises"
              [] o = "ok_results" -> "results"
              [] OTHER -> "no_results_key")
    IN WrapReturn(resp.success, resp.results)

\* main2.py lines 137-164
linkup_search_main2(key, o) ==
    IF ~key THEN WrapReturn(FALSE, << <<>> >>)
    ELSE IF CallFailed(o) THEN WrapReturn(FALSE, << <<>> >>)
    ELSE IF o = "ok_results" THEN WrapReturn(TRUE, <<Hits>>)
    ELSE WrapReturn(TRUE, << <<>> >>)

\* main.py lines 57-82: the failure responses have no "results" key
linkup_search_main(o) ==
    IF o = "ok_results" THEN WrapReturn(TRUE, <<Hits>>)
    ELSE IF o = "ok_other" THEN WrapReturn(TRUE, << <<>> >>)
    ELSE WrapReturn(FALSE, <<>>)

NoCall == [key |-> FALSE, outcome |-> "none", ret |-> WrapReturn(FALSE, <<>>)]

\* no wrapper is called in this run
WrapIdle ==
    /\ wpc = "idle"
    /\ wrapper = "none"
    /\ wret = NoCall

WrapStart ==
    /\ wpc = "call"
    /\ wrapper = "none"
    /\ wret = NoCall

\* discovery2.linkup_search_tool(query)
CallDiscovery2Tool ==
    /\ wpc = "call"
    /\ \E key \in BOOLEAN, o \in CallOutcomes \ {"no_sdk"} :
          wret' = [key |-> key, outcome |-> o, ret |-> linkup_search_tool2(key, o)]
    /\ wrapper' = "discovery2.linkup_search_tool"
    /\ wpc' = "returned"
    /\ UNCHANGED <<entry, uiVars, jsonVars, chatVars, runVars, parVars, pipeVars, streamVars, discVars>>

\* linkup_tools.linkup_search_tool(query): without a key the client cannot
\* be built or its search is refused
CallLinkupSearchTool ==
    /\ wpc = "call"
    /\ \E key \in BOOLEAN, o \in CallOutcomes :
          /\ ~key => CallFailed(o)
          /\ wret' = [key |-> key, outcome |-> o, ret |-> linkup_search_tool(o)]
    /\ wrapper' = "linkup_tools.linkup_search_tool"
    /\ wpc' = "returned"
    /\ UNCHANGED <<entry, uiVars, jsonVars, chatVars, runVars, parVars, pipeVars, streamVars, discVars>>

\* POST /linkup_search of backend/main2.py
CallMain2Endpoint ==
    /\ wpc = "call"
    /\ \E key \in BOOLEAN, o \in CallOutcomes :
          wret' = [key |-> key, outcome |-> o, ret |-> linkup_search_main2(key, o)]
    /\ wrapper' = "main2.linkup_search"
    /\ wpc' = "returned"
    /\ UNCHANGED <<entry, uiVars, jsonVars, chatVars, runVars, parVars, pipeVars, streamVars, discVars>>

\* POST /linkup_search of backend/main.py: without a key the request carries
\* "Bearer None" and is refused
CallMainEndpoint ==
    /\ wpc = "call"
    /\ \E key \in BOOLEAN, o \in CallOutcomes \ {"no_sdk"} :
          /\ ~key => CallFailed(o)
          /\ wret' = [key |-> key, outcome |-> o, ret |-> linkup_search_main(o)]
    /\ wrapper' = "main.linkup_search"
    /\ wpc' = "returned"
    /\ UNCHANGED <<entry, uiVars, jsonVars, chatVars, runVars, parVars, pipeVars, streamVars, discVars>>

NextWrap ==
    \/ CallDiscovery2Tool
    \/ CallLinkupSearchTool
    \/ CallMain2Endpoint
    \/ CallMainEndpoint

(***************************************************************************)
(* Two requests served by run_agent_and_stream at the same time.  Every    *)
(* name the generator and run_pipeline assign is a local of the call       *)
(* (main2.py:169-225, final_agents.py:204-248), so each request has a      *)
(* frame of its own; the event loop interleaves the frames at their        *)
(* yields and awaits.                                                      *)
(***************************************************************************)
PyRaise == [type |-> "raise", items |-> <<>>]

\* what the awaited pipeline call may deliver to a frame
Upstreams == StubValues \cup {PyRaise}

\* the frame of a call that has not run yet (line 169)
NewFrame(req) ==
    [request |-> req, spc |-> "start", thesis |-> <<>>,
     sresults |-> PyList(<<>>), events |-> <<>>, upstream |-> <<>>]

NoFrame == NewFrame([criteria |-> "", location |-> "", funding_stage |-> ""])

\* Mutant of FrameStep: `results` is a module global, so the status lines
\* count the list the first request left there.
FrameStepSharedResults(f, v) ==
    CASE f.spc = "start" ->
           [f EXCEPT !.events = Append(@, StatusEvent("starting", <<>>)),
                     !.spc = "thesis"]
      [] f.spc = "thesis" ->
           [f EXCEPT !.thesis = BuildThesis(f.request),
                     !.events = Append(@, StatusEvent("searching",
                                                      BuildThesis(f.request))),
                     !.spc = "try"]
      [] f.spc = "try" ->
           [f EXCEPT !.sresults = PyList(<<>>),
                     !.events = Append(@, StatusEvent("running", <<>>)),
                     !.spc = "await"]
      [] f.spc = "await" ->
           [f EXCEPT !.upstream = <<v>>,
                     !.sresults = IF v = PyRaise THEN PyList(<<>>)
                                  ELSE Normalize(v),
                     !.spc = "found"]
      [] f.spc = "found" ->
           IF HasLen(runs[1].sresults)
           THEN [f EXCEPT !.events = Append(@, StatusEvent("found",
                                         <<Len(runs[1].sresults.items)>>)),
                          !.spc = "clean"]
           ELSE [f EXCEPT !.spc = "crashed"]
      [] f.spc = "clean" ->
           IF AllDicts(f.sresults)
           THEN [f EXCEPT !.sresults = PyList(CleanItems(f.sresults.items)),
                          !.events = Append(@, StatusEvent("complete-found",
                                                <<Len(f.sresults.items)>>)),
                          !.spc = "final"]
           ELSE [f EXCEPT !.spc = "crashed"]
      [] f.spc = "final" ->
           [f EXCEPT !.events = Append(@, CompleteEvent(ItemDicts(f.sresults.items))),
                     !.spc = "closed"]
      [] OTHER -> f

\* lines 177-225: the frame `f` runs to its next yield or await; `v` is what
\* the awaited pipeline call delivers when the frame is at line 199
FrameStep(f, v) ==
    CASE f.spc = "start" ->
           [f EXCEPT !.events = Append(@, StatusEvent("starting", <<>>)),
                     !.spc = "thesis"]
      [] f.spc = "thesis" ->
           [f EXCEPT !.thesis = BuildThesis(f.request),
                     !.events = Append(@, StatusEvent("searching",
                                                      BuildThesis(f.request))),
                     !.spc = "try"]
      [] f.spc = "try" ->
           [f EXCEPT !.sresults = PyList(<<>>),
                     !.events = Append(@, StatusEvent("running", <<>>)),
                     !.spc = "await"]
      [] f.spc = "await" ->
           [f EXCEPT !.upstream = <<v>>,
                     !.sresults = IF v = PyRaise THEN PyList(<<>>)
                                  ELSE Normalize(v),
                     !.spc = "found"]
      [] f.spc = "found" ->
           IF HasLen(f.sresults)
           THEN [f EXCEPT !.events = Append(@, StatusEvent("found",
                                                <<Len(f.sresults.items)>>)),
                          !.spc = "clean"]
           ELSE [f EXCEPT !.spc = "crashed"]
      [] f.spc = "clean" ->
           IF AllDicts(f.sresults)
           THEN [f EXCEPT !.sresults = PyList(CleanItems(f.sresults.items)),
                          !.events = Append(@, StatusEvent("complete-found",
                                                <<Len(f.sresults.items)>>)),
                          !.spc = "final"]
           ELSE [f EXCEPT !.spc = "crashed"]
      [] f.spc = "final" ->
           [f EXCEPT !.events = Append(@, CompleteEvent(ItemDicts(f.sresults.items))),
                     !.spc = "closed"]
      [] OTHER -> f

FrameEnded(f) == f.spc \in {"closed", "crashed"}

RunsIdle == runs = <<NoFrame, NoFrame>>

\* POST /run_scout twice, for two different requests (lines 231-237)
RunsStart ==
    \E q1, q2 \in Requests :
       /\ q1 # q2
       /\ runs = <<NewFrame(q1), NewFrame(q2)>>

\* the event loop resumes one of the two generators
ResumeRun ==
    /\ entry = "two_requests"
    /\ \E r \in 1..2 :
          /\ ~FrameEnded(runs[r])
          /\ \E v \in Upstreams :
                runs' = [runs EXCEPT ![r] = FrameStep(runs[r], v)]
    /\ UNCHANGED <<entry, uiVars, jsonVars, chatVars, parVars, pipeVars, streamVars, discVars, wrapVars>>

(***************************************************************************)
(* backend/main2.py: the chat endpoints.  chat_stream_generator yields     *)
(* server-sent events; chat_sync returns one JSON body.  Both are given    *)
(* the same request and the same outcome of conversational_agent.invoke.   *)
(***************************************************************************)
MaxHistory == 2

\* entries a client may put in conversation_history
HistoryPool == {
    [k \in {"role", "content"} |-> IF k = "role" THEN "user" ELSE "hi"],
    [k \in {"role", "content"} |-> IF k = "role" THEN "assistant" ELSE "hello"],
    [k \in {"role", "content"} |-> IF k = "role" THEN "system" ELSE "be brief"],
    [k \in {"role"} |-> "user"] }

Histories == UNION { [1..n -> HistoryPool] : n \in 0..MaxHistory }

ChatRequests == { [message |-> "find fintechs", history |-> h] : h \in Histories }

\* a message of the agent's result: its content (none when the object has
\* no such attribute), its tool calls and its str()
AgentMessage(content, tools, repr) ==
    [content |-> content, tools |-> tools, repr |-> repr]

\* conversational_agent.invoke: it raises, it returns something that is not
\* a mapping, or it returns a result with these messages
AgentOutcomes ==
    { [kind |-> "raises", error |-> "upstream timeout", messages |-> <<>>],
      [kind |-> "not_a_mapping", error |-> "no attribute get", messages |-> <<>>],
      [kind |-> "result", error |-> "", messages |-> <<>>],
      [kind |-> "result", error |-> "",
       messages |-> <<AgentMessage(<<"Here are 3 fintechs">>, <<>>, "ai")>>],
      [kind |-> "result", error |-> "",
       messages |-> << AgentMessage(<<"">>, <<"linkup_search">>, "ai"),
                       AgentMessage(<<"hits">>, <<>>, "tool"),
                       AgentMessage(<<"Found Acme">>, <<>>, "ai") >>],
      [kind |-> "result", error |-> "",
       messages |-> << AgentMessage(<<"">>, <<"run_pipeline", "linkup_search">>, "ai"),
                       AgentMessage(<<"rows">>, <<>>, "tool"),
                       AgentMessage(<<"">>, <<"deep_research_company">>, "ai"),
                       AgentMessage(<<>>, <<>>, "raw tool output") >>] }

\* lines 254-264 and 337-347: the history entries with role user or
\* assistant, then the current message
RECURSIVE ForwardHistory(_)
ForwardHistory(history) ==
    IF history = <<>> THEN <<>>
    ELSE LET msg == Head(history)
         IN (IF Get(msg, "role", NoneV) \in {"user", "assistant"}
             THEN <<[role |-> msg["role"], content |-> Get(msg, "content", "")]>>
             ELSE <<>>)
            \o ForwardHistory(Tail(history))

\* Mutant of BuildMessages: every history entry is forwarded.
BuildMessagesAllRoles(history, message) ==
    [i \in 1..Len(history) |->
        [role |-> Get(history[i], "role", NoneV),
         content |-> Get(history[i], "content", "")]]
    \o <<[role |-> "user", content |-> message]>>

BuildMessages(history, message) ==
    ForwardHistory(history) \o <<[role |-> "user", content |-> message]>>

\* lines 275-282 and 364-369: the name of the first tool call of the first
\* message that has any
RECURSIVE ToolUsed(_)
ToolUsed(msgs) ==
    IF msgs = <<>> THEN NoneV
    ELSE IF Head(msgs).tools # <<>> THEN Head(msgs).tools[1]
    ELSE ToolUsed(Tail(msgs))

\* lines 284-292 and 354-362
ResponseText(msgs) ==
    IF msgs # <<>>
    THEN LET last_message == msgs[Len(msgs)]
         IN IF last_message.content # <<>> THEN last_message.content[1]
            ELSE last_message.repr
    ELSE "No response generated."

ChatPayload(success, response, tool) ==
    [success |-> success, response |-> response, tool_used |-> tool]

\* lines 305-310 and 376-381
ErrorPayload(e) == ChatPayload(FALSE, <<"Error: ", e>>, NoneV)

\* whether result = conversational_agent.invoke(...) and result.get raise
InvokeFails(o) == o.kind \in {"raises", "not_a_mapping"}

\* Mutant of OnException: the exception leaves the generator.
OnExceptionEscapes(evs, e) == evs

\* lines 305-311: the except branch yields the error event
OnException(evs, e) ==
    Append(evs, [event |-> "error", data |-> <<ErrorPayload(e)>>])

ChatStatus(text) == [event |-> "status", data |-> text]

\* lines 330-381
chat_sync(req, o) ==
    IF InvokeFails(o) THEN ErrorPayload(o.error)
    ELSE ChatPayload(TRUE, <<ResponseText(o.messages)>>, ToolUsed(o.messages))

ChatIdle ==
    /\ chatReq = [message |-> "", history |-> <<>>]
    /\ agentOut = [kind |-> "not called", error |-> "", messages |-> <<>>]
    /\ cpc = "idle"
    /\ cmessages = <<>>
    /\ tool_used = NoneV
    /\ cevents = <<>>
    /\ syncMessages = <<>>
    /\ syncRet = <<>>

ChatStart ==
    /\ chatReq \in ChatRequests
    /\ agentOut \in AgentOutcomes
    /\ cpc = "start"
    /\ cmessages = <<>>
    /\ tool_used = NoneV
    /\ cevents = <<>>
    /\ syncMessages = <<>>
    /\ syncRet = <<>>

\* line 250
YieldProcessing ==
    /\ cpc = "start"
    /\ cevents' = Append(cevents, ChatStatus(<<"processing">>))
    /\ cpc' = "build"
    /\ UNCHANGED <<entry, uiVars, jsonVars, parVars, pipeVars, streamVars, discVars, wrapVars,
                   runVars, chatReq, agentOut, cmessages, tool_used,
                   syncMessages, syncRet>>

\* lines 254-266
YieldAnalyzing ==
    /\ cpc = "build"
    /\ cmessages' = BuildMessages(chatReq.history, chatReq.message)
    /\ cevents' = Append(cevents, ChatStatus(<<"analyzing">>))
    /\ cpc' = "invoke"
    /\ UNCHANGED <<entry, uiVars, jsonVars, parVars, pipeVars, streamVars, discVars, wrapVars,
                   runVars, chatReq, agentOut, tool_used, syncMessages, syncRet>>

\* lines 270-294 and 305-311: the agent is invoked; the generator runs to
\* its next yield, which is the error event, the tool status or "ready"
InvokeAgent ==
    /\ cpc = "invoke"
    /\ IF InvokeFails(agentOut)
       THEN /\ cevents' = OnException(cevents, agentOut.error)
            /\ cpc' = "closed"
            /\ UNCHANGED tool_used
       ELSE /\ tool_used' = ToolUsed(agentOut.messages)
            /\ IF ToolUsed(agentOut.messages) # NoneV
               THEN /\ cevents' = Append(cevents,
                           ChatStatus(<<"tool", ToolUsed(agentOut.messages)>>))
                    /\ cpc' = "extract"
               ELSE /\ cevents' = Append(cevents, ChatStatus(<<"ready">>))
                    /\ cpc' = "final"
    /\ UNCHANGED <<entry, uiVars, jsonVars, parVars, pipeVars, streamVars, discVars, wrapVars,
                   runVars, chatReq, agentOut, cmessages, syncMessages, syncRet>>

\* lines 284-294, resumed after the tool status
YieldReady ==
    /\ cpc = "extract"
    /\ cevents' = Append(cevents, ChatStatus(<<"ready">>))
    /\ cpc' = "final"
    /\ UNCHANGED <<entry, uiVars, jsonVars, parVars, pipeVars, streamVars, discVars, wrapVars,
                   runVars, chatReq, agentOut, cmessages, tool_used,
                   syncMessages, syncRet>>

\* lines 298-303
YieldChatComplete ==
    /\ cpc = "final"
    /\ cevents' = Append(cevents,
          [event |-> "complete",
           data |-> <<ChatPayload(TRUE, <<ResponseText(agentOut.messages)>>,
                                  tool_used)>>])
    /\ cpc' = "closed"
    /\ UNCHANGED <<entry, uiVars, jsonVars, parVars, pipeVars, streamVars, discVars, wrapVars,
                   runVars, chatReq, agentOut, cmessages, tool_used,
                   syncMessages, syncRet>>

\* lines 330-381: POST /chat_sync with the same payload
ChatSync ==
    /\ cpc # "idle"
    /\ syncRet = <<>>
    /\ syncMessages' = BuildMessages(chatReq.history, chatReq.message)
    /\ syncRet' = <<chat_sync(chatReq, agentOut)>>
    /\ UNCHANGED <<entry, uiVars, jsonVars, parVars, pipeVars, streamVars, discVars, wrapVars,
                   runVars, chatReq, agentOut, cpc, cmessages, tool_used, cevents>>

NextChat ==
    \/ YieldProcessing
    \/ YieldAnalyzing
    \/ InvokeAgent
    \/ YieldReady
    \/ YieldChatComplete
    \/ ChatSync

(***************************************************************************)
(* The JSON extraction step of _enrich_company (deep_dive_agent.py) and of *)
(* linkup_startup_search (discovery_agent.py): a greedy regular expression *)
(* over the LLM's reply, then json.loads.  A reply is a sequence of        *)
(* tokens: the opening and the closing bracket the expression looks for    *)
(* ({ } in the deep dive, [ ] in discovery), one element of the value, and *)
(* other text.                                                             *)
(***************************************************************************)
MaxTokens == 5

Tokens == {"open", "close", "item", "word"}

Replies == UNION { [1..n -> Tokens] : n \in 0..MaxTokens }

\* re.search(r'\{.*\}', content, re.DOTALL), and r'\[.*\]': the match runs
\* from the first opening bracket to the last closing bracket after it
re_search(content) ==
    LET opens == {i \in 1..Len(content) : content[i] = "open"}
        first == CHOOSE i \in opens : \A k \in opens : i <= k
        closes == {j \in 1..Len(content) : content[j] = "close" /\ j > first}
        last == CHOOSE j \in closes : \A k \in closes : k <= j
    IN IF opens = {} THEN <<>>
       ELSE IF closes = {} THEN <<>>
       ELSE <<SubSeq(content, first, last)>>

\* json.loads accepts the brackets with nothing or with one element between
WellFormed(text) ==
    \/ text = <<"open", "close">>
    \/ text = <<"open", "item", "close">>

\* the LLM output as _enrich_company and linkup_startup_search see it
ReplyKind(content) ==
    IF re_search(content) = <<>> THEN "nojson"
    ELSE IF WellFormed(re_search(content)[1]) THEN "json"
    ELSE "badjson"

\* what json.loads returns for a well-formed object of the deep dive
ObjectOf(text) ==
    IF Len(text) = 3 THEN [k \in {"Description"} |-> "neobank"] ELSE EmptyDict

\* what json.loads returns for a well-formed array of discovery
ArrayOf(text) ==
    IF Len(text) = 3 THEN <<CompanyPool[1]>> ELSE <<>>

\* deep_dive_agent.py lines 208-218
extract_object(content) ==
    EnrichedData(TRUE, [kind |-> ReplyKind(content),
                        data |-> IF ReplyKind(content) = "json"
                                 THEN ObjectOf(re_search(content)[1])
                                 ELSE EmptyDict])

\* discovery_agent.py lines 122-144
extract_array(content) ==
    Extract([kind |-> ReplyKind(content),
             items |-> IF ReplyKind(content) = "json"
                       THEN ArrayOf(re_search(content)[1])
                       ELSE <<>>])

JsonIdle ==
    /\ reply = <<>>
    /\ jsite = "idle"
    /\ jout = <<>>

JsonStart ==
    /\ reply \in Replies
    /\ jsite = "reply"
    /\ jout = <<>>

\* the reply reaches the extraction of _enrich_company
ExtractInDeepDive ==
    /\ jsite = "reply"
    /\ jsite' = "deep_dive"
    /\ jout' = <<extract_object(reply)>>
    /\ UNCHANGED <<entry, uiVars, parVars, pipeVars, streamVars, discVars, wrapVars,
                   runVars, chatVars, reply>>

\* the reply reaches the extraction of linkup_startup_search
ExtractInDiscovery ==
    /\ jsite = "reply"
    /\ jsite' = "discovery"
    /\ jout' = <<extract_array(reply)>>
    /\ UNCHANGED <<entry, uiVars, parVars, pipeVars, streamVars, discVars, wrapVars,
                   runVars, chatVars, reply>>

NextJson ==
    \/ ExtractInDeepDive
    \/ ExtractInDiscovery

(***************************************************************************)
(* frontend/streamlit_app.py: the chat page.  One action is one run of the *)
(* script for one widget event, up to its st.rerun().  A message is its    *)
(* role and content; the title of a conversation is a function of its      *)
(* messages and is left out.  user_input is the content of the text box    *)
(* (the widget keyed by input_key, pre-filled from default_input).         *)
(* created, active and nextSerial are history variables: the serial of     *)
(* each entry of conversation_history in order of creation, and the serial *)
(* of the conversation on screen (0 when it has no entry).                 *)
(***************************************************************************)
MaxConversations == 3

MaxExchanges == 1

\* what the user may type into the box
BoxTexts == {"q1", "q2"}

\* line 1016
QUICK_START_PROMPTS == <<"Find emerging startups in AI healthcare sector">>

UserMsg(content) == [role |-> "user", content |-> content]

AssistantMsg(content) == [role |-> "assistant", content |-> content]

\* what POST /enhance_query does: the request fails or is not answered with
\* 200, or the body has a refined_query, or it has none
EnhanceOutcomes == {
    [ok |-> FALSE, refined_query |-> <<>>],
    [ok |-> TRUE, refined_query |-> <<"q1 refined">>],
    [ok |-> TRUE, refined_query |-> <<>>] }

\* what stream_chat_response (lines 850-891) yields after the status
\* updates: a complete update whose data has a response, has an empty one,
\* has none or is not a dict; an error update; or nothing
StreamOutcomes == {
    [type |-> "complete", response |-> <<"a1">>],
    [type |-> "complete", response |-> <<"Error: upstream timeout">>],
    [type |-> "complete", response |-> <<"">>],
    [type |-> "complete", response |-> <<>>],
    [type |-> "complete_not_a_dict", response |-> <<>>],
    [type |-> "error", response |-> <<"Request timed out. Please try again.">>],
    [type |-> "error", response |-> <<"">>],
    [type |-> "nothing", response |-> <<>>] }

HasId(history, id) == \E i \in 1..Len(history) : history[i].id = id

FirstWithId(history, id) ==
    CHOOSE i \in 1..Len(history) :
       /\ history[i].id = id
       /\ \A j \in 1..(i - 1) : history[j].id # id

\* lines 894-919: the history and the current id after the call
save_current_conversation(msgs, history, current) ==
    IF msgs = <<>> THEN [history |-> history, current |-> current]
    ELSE IF current # <<>>
    THEN [history |->
             IF HasId(history, current[1])
             THEN [history EXCEPT ![FirstWithId(history, current[1])].messages = msgs]
             ELSE history,
          current |-> current]
    ELSE [history |-> Append(history, [id |-> Len(history) + 1, messages |-> msgs]),
          current |-> <<Len(history) + 1>>]

\* lines 922-928: the messages and the current id after the call
load_conversation(msgs, history, current, conv_id) ==
    IF HasId(history, conv_id)
    THEN [messages |-> history[FirstWithId(history, conv_id)].messages,
          current |-> <<conv_id>>]
    ELSE [messages |-> msgs, current |-> current]

\* the call of save_current_conversation appends an entry
SaveCreates(msgs, current) == msgs # <<>> /\ current = <<>>

\* lines 1001-1003: [c for c in ... if c["id"] != conv["id"]]
RECURSIVE WithoutId(_, _, _)
WithoutId(history, seq, id) ==
    IF history = <<>> THEN <<>>
    ELSE (IF Head(history).id # id THEN <<Head(seq)>> ELSE <<>>)
         \o WithoutId(Tail(history), Tail(seq), id)

\* lines 1291-1295: the content of the last user message, None without one
RECURSIVE LastUserMessage(_)
LastUserMessage(msgs) ==
    IF msgs = <<>> THEN NoneV
    ELSE IF msgs[Len(msgs)].role = "user" THEN msgs[Len(msgs)].content
    ELSE LastUserMessage(SubSeq(msgs, 1, Len(msgs) - 1))

\* lines 1308-1329: final_response after the loop over the updates
FinalResponse(o) ==
    CASE o.type = "complete" ->
            IF o.response # <<>> THEN o.response[1] ELSE "No response received."
      [] o.type = "error" -> o.response[1]
      [] OTHER -> NoneV

\* Mutant of Reply: a falsy final_response appends nothing.
ReplyOnlyWhenTruthy(msgs, o) ==
    IF o.type = "complete_not_a_dict"
    THEN Append(msgs, AssistantMsg("Error: 'str' object has no attribute 'get'"))
    ELSE IF Truthy(FinalResponse(o))
    THEN Append(msgs, AssistantMsg(FinalResponse(o)))
    ELSE msgs

\* lines 1298-1353: the messages after the try block
Reply(msgs, o) ==
    IF o.type = "complete_not_a_dict"
    THEN Append(msgs, AssistantMsg("Error: 'str' object has no attribute 'get'"))
    ELSE IF Truthy(FinalResponse(o))
    THEN Append(msgs, AssistantMsg(FinalResponse(o)))
    ELSE Append(msgs, AssistantMsg("No response received."))

\* line 1339: the conversation is saved after a truthy final_response only
RepliedAndSaved(o) ==
    o.type # "complete_not_a_dict" /\ Truthy(FinalResponse(o))

Exchanges(msgs) == Cardinality({i \in 1..Len(msgs) : msgs[i].role = "user"})

\* lines 718-744
UiStart ==
    /\ messages = <<>>
    /\ processing = FALSE
    /\ enhanced_query = ""
    /\ user_input = ""
    /\ conversation_history = <<>>
    /\ current_conversation_id = <<>>
    /\ created = <<>>
    /\ active = 0
    /\ nextSerial = 1

UiIdle == UiStart

\* the backend's answers, the enhancement and the length of a conversation
\* vary until the first entry of the history exists; later conversations
\* are one question with the plain answer
Varied == nextSerial = 1

\* the user types into the text box (line 1213)
EditBox ==
    /\ entry = "streamlit"
    /\ ~processing
    /\ \E text \in BoxTexts \cup {""} :
          /\ text # user_input
          /\ user_input' = text
    /\ UNCHANGED <<entry, parVars, pipeVars, streamVars, discVars, wrapVars,
                   runVars, chatVars, jsonVars, messages, processing, enhanced_query,
                   conversation_history, current_conversation_id, created,
                   active, nextSerial>>

\* lines 1248-1265
EnhanceQuery ==
    /\ entry = "streamlit"
    /\ ~processing
    /\ user_input # ""
    /\ Varied
    /\ \E o \in EnhanceOutcomes :
          IF o.ok
          THEN LET enhanced == IF o.refined_query # <<>> THEN o.refined_query[1]
                               ELSE user_input
               IN /\ user_input' = enhanced
                  /\ enhanced_query' = enhanced
          ELSE UNCHANGED <<user_input, enhanced_query>>
    /\ UNCHANGED <<entry, parVars, pipeVars, streamVars, discVars, wrapVars,
                   runVars, chatVars, jsonVars, messages, processing, conversation_history,
                   current_conversation_id, created, active, nextSerial>>

\* a conversation that will need a new entry may be started
MayStart ==
    /\ Exchanges(messages) < (IF Varied THEN MaxExchanges ELSE 1)
    /\ current_conversation_id = <<>> /\ messages = <<>> =>
          nextSerial <= MaxConversations

\* lines 1270-1283
Send ==
    /\ entry = "streamlit"
    /\ ~processing
    /\ user_input # ""
    /\ MayStart
    /\ LET message_to_send == IF enhanced_query # "" THEN enhanced_query
                              ELSE user_input
       IN messages' = Append(messages, UserMsg(message_to_send))
    /\ processing' = TRUE
    /\ enhanced_query' = ""
    /\ user_input' = ""
    /\ UNCHANGED <<entry, parVars, pipeVars, streamVars, discVars, wrapVars,
                   runVars, chatVars, jsonVars, conversation_history, current_conversation_id,
                   created, active, nextSerial>>

\* lines 1025-1049
QuickStart ==
    /\ entry = "streamlit"
    /\ ~processing
    /\ messages = <<>>
    /\ MayStart
    /\ \E p \in 1..Len(QUICK_START_PROMPTS) :
          messages' = Append(messages, UserMsg(QUICK_START_PROMPTS[p]))
    /\ processing' = TRUE
    /\ UNCHANGED <<entry, parVars, pipeVars, streamVars, discVars, wrapVars,
                   runVars, chatVars, jsonVars, enhanced_query, user_input, conversation_history,
                   current_conversation_id, created, active, nextSerial>>

\* lines 1288-1358
Process ==
    /\ entry = "streamlit"
    /\ processing
    /\ IF Truthy(LastUserMessage(messages))
       THEN \E o \in StreamOutcomes :
               LET saved == save_current_conversation(
                               Reply(messages, o), conversation_history,
                               current_conversation_id)
               IN /\ Varied \/ o = [type |-> "complete", response |-> <<"a1">>]
                  /\ messages' = Reply(messages, o)
                  /\ IF RepliedAndSaved(o)
                     THEN /\ conversation_history' = saved.history
                          /\ current_conversation_id' = saved.current
                          /\ IF SaveCreates(Reply(messages, o), current_conversation_id)
                             THEN /\ created' = Append(created, nextSerial)
                                  /\ active' = nextSerial
                                  /\ nextSerial' = nextSerial + 1
                             ELSE UNCHANGED <<created, active, nextSerial>>
                     ELSE UNCHANGED <<conversation_history, current_conversation_id,
                                      created, active, nextSerial>>
       ELSE UNCHANGED <<messages, conversation_history, current_conversation_id,
                        created, active, nextSerial>>
    /\ processing' = FALSE
    /\ UNCHANGED <<entry, parVars, pipeVars, streamVars, discVars, wrapVars,
                   runVars, chatVars, jsonVars, enhanced_query, user_input>>

\* lines 931-935, called by "+ New Conversation" (957-959) and Clear
\* (1237-1240)
StartNewConversation ==
    /\ entry = "streamlit"
    /\ ~processing
    /\ LET saved == save_current_conversation(messages, conversation_history,
                                              current_conversation_id)
       IN /\ conversation_history' = saved.history
          /\ IF SaveCreates(messages, current_conversation_id)
             THEN /\ created' = Append(created, nextSerial)
                  /\ nextSerial' = nextSerial + 1
             ELSE UNCHANGED <<created, nextSerial>>
    /\ messages' = <<>>
    /\ current_conversation_id' = <<>>
    /\ active' = 0
    /\ UNCHANGED <<entry, parVars, pipeVars, streamVars, discVars, wrapVars,
                   runVars, chatVars, jsonVars, processing, enhanced_query, user_input>>

\* lines 987-996: the button of entry k of the sidebar
SwitchConversation ==
    /\ entry = "streamlit"
    /\ ~processing
    /\ \E k \in 1..Len(conversation_history) :
          LET saved == save_current_conversation(messages, conversation_history,
                                                 current_conversation_id)
              loaded == load_conversation(messages, saved.history, saved.current,
                                          conversation_history[k].id)
          IN /\ conversation_history' = saved.history
             /\ messages' = loaded.messages
             /\ current_conversation_id' = loaded.current
             /\ IF SaveCreates(messages, current_conversation_id)
                THEN /\ created' = Append(created, nextSerial)
                     /\ nextSerial' = nextSerial + 1
                ELSE UNCHANGED <<created, nextSerial>>
             /\ active' = created[k]
    /\ UNCHANGED <<entry, parVars, pipeVars, streamVars, discVars, wrapVars,
                   runVars, chatVars, jsonVars, processing, enhanced_query, user_input>>

\* lines 997-1004: the delete button of entry k of the sidebar
DeleteConversation ==
    /\ entry = "streamlit"
    /\ ~processing
    /\ \E k \in 1..Len(conversation_history) :
          LET id == conversation_history[k].id
          IN /\ conversation_history' =
                   WithoutId(conversation_history, conversation_history, id)
             /\ created' = WithoutId(conversation_history, created, id)
             /\ IF current_conversation_id = <<id>>
                THEN /\ messages' = <<>>
                     /\ current_conversation_id' = <<>>
                     /\ active' = 0
                ELSE UNCHANGED <<messages, current_conversation_id, active>>
    /\ UNCHANGED <<entry, parVars, pipeVars, streamVars, discVars, wrapVars,
                   runVars, chatVars, jsonVars, processing, enhanced_query, user_input, nextSerial>>

NextUI ==
    \/ EditBox
    \/ EnhanceQuery
    \/ Send
    \/ QuickStart
    \/ Process
    \/ StartNewConversation
    \/ SwitchConversation
    \/ DeleteConversation

(***************************************************************************)
(* The generators of /run_scout alone.                                     *)
(***************************************************************************)
InitStream ==
    /\ entry \in {"run_scout_stub", "run_scout_main"}
    /\ ParIdle
    /\ reqAttrs \in ReqAttrLists \ {NotGiven}
    /\ PipeIdle
    /\ StreamStart
    /\ DiscIdle
    /\ WrapIdle
    /\ UiIdle
    /\ JsonIdle
    /\ ChatIdle
    /\ RunsIdle

NextStreamAlone ==
    \/ YieldStarting
    \/ YieldSearching
    \/ CallPipeline
    \/ StubReturns
    \/ StubRaises
    \/ YieldFound
    \/ YieldCleaned
    \/ YieldComplete
    \/ MainYieldStatus
    \/ MainYieldComplete

SpecStream == InitStream /\ [][NextStreamAlone]_vars

(***************************************************************************)
(* The specification: one run of one entry point.                          *)
(***************************************************************************)
\* POST /run_scout of backend/main2.py with the pipeline behind it
InitScout ==
    /\ entry = "run_scout"
    /\ ParIdle
    /\ reqAttrs \in ReqAttrLists \ {NotGiven}
    /\ PipeIdle
    /\ StreamStart
    /\ DiscIdle
    /\ WrapIdle
    /\ UiIdle
    /\ JsonIdle
    /\ ChatIdle
    /\ RunsIdle

Init ==
    \/ /\ entry = "deep_dive_parallel"
       /\ ParStart
       /\ reqAttrs = NotGiven
       /\ PipeIdle
       /\ StreamIdle
       /\ DiscIdle
       /\ WrapIdle
       /\ UiIdle
       /\ JsonIdle
       /\ ChatIdle
       /\ RunsIdle
    \/ /\ entry = "run_pipeline"
       /\ ParIdle
       /\ PipeStart
       /\ StreamIdle
       /\ DiscIdle
       /\ WrapIdle
       /\ UiIdle
       /\ JsonIdle
       /\ ChatIdle
       /\ RunsIdle
    \/ InitScout
    \/ /\ entry = "find_companies"
       /\ ParIdle
       /\ reqAttrs = NotGiven
       /\ PipeIdle
       /\ StreamIdle
       /\ DiscStart
       /\ WrapIdle
       /\ UiIdle
       /\ JsonIdle
       /\ ChatIdle
       /\ RunsIdle
    \/ /\ entry = "linkup_search"
       /\ ParIdle
       /\ reqAttrs = NotGiven
       /\ PipeIdle
       /\ StreamIdle
       /\ DiscIdle
       /\ WrapStart
       /\ UiIdle
       /\ JsonIdle
       /\ ChatIdle
       /\ RunsIdle

Next ==
    \/ NextPar
    \/ NextPipe
    \/ NextStream
    \/ NextDisc
    \/ NextWrap

Spec == Init /\ [][Next]_vars

(***************************************************************************)
(* Liveness of /run_scout.  The steps the generator and run_pipeline take  *)
(* themselves are fair.  The answers of the discovery agent and of the     *)
(* deep-dive agent are not: no call of the pipeline passes a timeout       *)
(* (final_agents.py:34-40, 184-187, 220-222; linkup_tools.py:89), so       *)
(* nothing in the code forces an answer or a failure to arrive.            *)
(***************************************************************************)
NextLive ==
    \/ NextPipe
    \/ NextStream

SpecLive ==
    /\ InitScout
    /\ [][NextLive]_vars
    /\ WF_vars(NextStream)
    /\ WF_vars(FanoutStart \/ FanoutRaises)
    /\ WF_vars(PipeReturn)

(***************************************************************************)
(* The specifications of the other entry points.                           *)
(***************************************************************************)
InitTwoRequests ==
    /\ entry = "two_requests"
    /\ ParIdle
    /\ reqAttrs = NotGiven
    /\ PipeIdle
    /\ StreamIdle
    /\ DiscIdle
    /\ WrapIdle
    /\ UiIdle
    /\ JsonIdle
    /\ ChatIdle
    /\ RunsStart

SpecTwoRequests == InitTwoRequests /\ [][ResumeRun]_vars

InitChat ==
    /\ entry = "chat"
    /\ ParIdle
    /\ reqAttrs = NotGiven
    /\ PipeIdle
    /\ StreamIdle
    /\ DiscIdle
    /\ WrapIdle
    /\ UiIdle
    /\ JsonIdle
    /\ RunsIdle
    /\ ChatStart

SpecChat == InitChat /\ [][NextChat]_vars

InitJson ==
    /\ entry = "json_extraction"
    /\ ParIdle
    /\ reqAttrs = NotGiven
    /\ PipeIdle
    /\ StreamIdle
    /\ DiscIdle
    /\ WrapIdle
    /\ UiIdle
    /\ RunsIdle
    /\ ChatIdle
    /\ JsonStart

SpecJson == InitJson /\ [][NextJson]_vars

InitUI ==
    /\ entry = "streamlit"
    /\ ParIdle
    /\ reqAttrs = NotGiven
    /\ PipeIdle
    /\ StreamIdle
    /\ DiscIdle
    /\ WrapIdle
    /\ RunsIdle
    /\ ChatIdle
    /\ JsonIdle
    /\ UiStart

SpecUI == InitUI /\ [][NextUI]_vars

(***************************************************************************)
(* Properties.                                                             *)
(***************************************************************************)
Range(seq) == {seq[i] : i \in 1..Len(seq)}

Count(seq, r) == Cardinality({j \in 1..Len(seq) : seq[j] = r})

Raised == {i \in 1..NCompanies : fut[i] = "raised"}

Done == {i \in 1..NCompanies : fut[i] = "done"}

\* the record _enrich_company computes for company i
RealData(i) == enrich_company(companies[i], attributes, llm, llmOut[i])

TerminalIndexes == {i \in 1..Len(events) : events[i].event \in {"complete", "error"}}

StreamEnded == spc \in {"closed", "crashed"}

\* C1: run_pipeline returns exactly one record per company that discovery
\* returned, whatever the outcomes of the deep dives; a company whose deep
\* dive failed is not dropped.
C1_OneRecordPerCompany ==
    ppc = "returned" => Len(pResults) = NFound

\* C2: deep_dive_parallel returns exactly len(companies) records, for every
\* max_workers, completion order and mix of returning and raising tasks.
C2_ParallelConservation ==
    dpc = "done" => Len(ret) = NCompanies

C2_Witness ==
    /\ dpc = "done"
    /\ NCompanies >= 3
    /\ max_workers >= 2
    /\ Raised # {}
    /\ Done # {}
    /\ Len(ret) = NCompanies

\* C3: every run of run_agent_and_stream emits statuses and then exactly one
\* terminal event (complete or error), with nothing after it, for every
\* outcome of the pipeline call.
C3_TerminalSingularity ==
    /\ Cardinality(TerminalIndexes) <= 1
    /\ \A i \in TerminalIndexes : i = Len(events)
    /\ StreamEnded => Cardinality(TerminalIndexes) = 1

\* C4: when discovery or the fan-out raises, the stream ends with a terminal
\* error event and no complete event is emitted.
C4_ErrorEventOnPipelineException ==
    (entry = "run_scout" /\ ppc = "raised" /\ StreamEnded) =>
        /\ events # <<>>
        /\ events[Len(events)].event = "error"
        /\ \A i \in 1..Len(events) : events[i].event # "complete"

\* C5: a raising enrichment task does not abort the coordinator or its
\* siblings: the coordinator can always continue until it returns, the output
\* has one entry per task, and the record of every task that returned is in
\* the output (deep_dive_parallel, and deep_dive_all through run_pipeline).
C5_FailureIsolation ==
    /\ dpc \in {"submit", "gather"} => ENABLED NextPar
    /\ dpc = "done" =>
          /\ Len(ret) = NCompanies
          /\ \A i \in Done :
                Count(ret, RealData(i)) >=
                    Cardinality({k \in Done : RealData(k) = RealData(i)})
    /\ ppc = "fanout" => ENABLED NextPipe
    /\ ppc = "returned" =>
          /\ Len(details) = NFound
          /\ \A i \in 1..NFound :
                details[i] # <<>> =>
                    Count(pResults, ResultDict(details[i][1])) >=
                        Cardinality({k \in 1..NFound : details[k] = details[i]})

C5_Witness ==
    /\ dpc = "done"
    /\ NCompanies = 5
    /\ Cardinality(Raised) = 1
    /\ Cardinality(Done) = 4
    /\ Len(ret) = 5

\* the identity fields of a candidate, as far as it has them
CarriesIdentity(r, c) ==
    \A k \in DOMAIN c \cap {"Company Name", "Website", "Location",
                              "name", "url", "country"} :
        k \in DOMAIN r /\ r[k] = c[k]

\* the record says something the candidate itself did not
FailureMarked(r, c) ==
    \E k \in DOMAIN r : k \notin DOMAIN c \/ r[k] # c[k]

\* C6: for a candidate whose enrichment failed the output holds a degraded
\* record with the candidate's identity fields and an explicit failure marker.
C6_DegradedRecordMarked ==
    /\ dpc = "done" =>
          \A i \in Raised :
             \E j \in 1..Len(ret) :
                /\ CarriesIdentity(ret[j], companies[i])
                /\ FailureMarked(ret[j], companies[i])
    /\ ppc = "returned" =>
          \A i \in 1..NFound :
             details[i] = <<>> =>
                \E j \in 1..Len(pResults) :
                   /\ pResults[j]["name"] = found[i].name
                   /\ pResults[j]["url"] = found[i].url

\* C7: when discovery yields no companies (the search having failed),
\* run_pipeline returns [] without any deep dive, and the stream ends in a
\* complete event with success true and results [], with no error event.
C7_EmptyDiscoveryCompletes ==
    (ppc \in {"fanout", "returned"} /\ found = <<>>) =>
        /\ ppc = "returned"
        /\ pResults = <<>>
        /\ task = <<>>
        /\ (entry = "run_scout" /\ StreamEnded) =>
              /\ spc = "closed"
              /\ events[Len(events)].event = "complete"
              /\ events[Len(events)].data.success
              /\ events[Len(events)].data.results = <<>>
              /\ \A i \in 1..Len(events) : events[i].event # "error"

C7_Witness ==
    /\ entry = "run_scout"
    /\ search.error = "HTTP 500"
    /\ found = <<>>
    /\ ppc = "returned"
    /\ spc = "closed"
    /\ events[Len(events)].event = "complete"

\* C8: every record of the final result list corresponds to exactly one
\* discovered candidate: its name and url are that candidate's, and no two
\* records correspond to the same candidate.
C8_RecordsMatchCandidates ==
    ppc = "returned" =>
        \E f \in [1..Len(pResults) -> 1..NFound] :
            /\ \A j, k \in 1..Len(pResults) : f[j] = f[k] => j = k
            /\ \A j \in 1..Len(pResults) :
                  /\ pResults[j]["name"] = found[f[j]].name
                  /\ pResults[j]["url"] = found[f[j]].url

\* C9: every record returned by enrichment has every requested attribute as
\* a key with a non-null value.
C9_RequestedAttributesPresent ==
    /\ ppc = "returned" =>
          \A j \in 1..Len(pResults) : \A a \in Range(pAttrs) :
             a \in DOMAIN pResults[j] /\ pResults[j][a] # NoneV
    /\ dpc = "done" =>
          \A j \in 1..Len(ret) : \A a \in Range(attributes) :
             a \in DOMAIN ret[j] /\ ret[j][a] # NoneV

\* C10: with attributes = [] the pipeline hands the full fixed 8-field schema
\* to the deep dive of every candidate, as it does when attributes is absent.
C10_EmptyAttributesDefault ==
    (reqAttrs.given /\ reqAttrs.list = <<>> /\ InFlight # {}) =>
        pAttrs = FixedSchema

HasScore(r) ==
    "global_relevance_score" \in DOMAIN r \/ "relevance_score" \in DOMAIN r

\* C11: every record returned by a result-producing operation (run_pipeline,
\* deep_dive_parallel) has a relevance score among its keys.
C11_RelevanceScorePresent ==
    /\ ppc = "returned" => \A j \in 1..Len(pResults) : HasScore(pResults[j])
    /\ dpc = "done" => \A j \in 1..Len(ret) : HasScore(ret[j])

\* the search call of the last tool run failed or gave no answer
SearchGaveNothing == answer.kind \in {"raises", "none_answer"}

\* C12: find_companies never raises: when the search call fails or has no
\* answer, or the extraction output cannot be parsed, it returns [].
C12_DiscoveryNeverRaises ==
    /\ fpc # "raised"
    /\ (fpc = "returned" /\ (SearchGaveNothing \/ Malformed(xkind))) =>
          fret = <<>>

\* the wrapper was called without a key, or its HTTP/SDK call failed
WrapperDegraded == wpc = "returned" /\ (~wret.key \/ CallFailed(wret.outcome))

LowerName(n) ==
    CASE n \in {"ACME", "Acme"} -> "acme"
      [] n = "Bolt" -> "bolt"
      [] n = "Zeta" -> "zeta"
      [] OTHER -> n

\* C14: every candidate find_companies returns is named (case-insensitively)
\* in the raw search answer that was fed to the extraction.
C14_NoFabrication ==
    fpc = "returned" =>
        \A i \in 1..Len(fret) :
            LowerName(fret[i]["Company Name"]) \in
                {LowerName(n) : n \in answer.names}

\* C15: the candidate list handed from discovery to enrichment has no two
\* entries with the same (name, url) pair.
C15_CandidatesDeduplicated ==
    /\ fpc = "returned" =>
          \A i, j \in 1..Len(fret) :
             (fret[i]["Company Name"] = fret[j]["Company Name"]
              /\ fret[i]["Website"] = fret[j]["Website"]) => i = j
    /\ ppc = "fanout" =>
          \A i, j \in 1..NFound :
             (found[i].name = found[j].name /\ found[i].url = found[j].url)
                => i = j

\* C16: an LLM output that is not the expected JSON is zero findings and no
\* exception: the discovery tool's extraction gives [], and _enrich_company
\* returns the record it builds from the company's own data.
C16_MalformedOutputIsNoData ==
    /\ Malformed(xkind) => (fpc = "returned" /\ fret = <<>>)
    /\ dpc = "done" =>
          \A i \in Done :
             (llm /\ llmOut[i].kind \in {"badjson", "nojson"}) =>
                /\ RealData(i) =
                      enrich_company(companies[i], attributes, FALSE, llmOut[i])
                /\ \E j \in 1..Len(ret) : ret[j] = RealData(i)

C16_Witness ==
    /\ fpc = "returned"
    /\ xkind = "badjson"
    /\ answer.kind = "answer"
    /\ answer.names # {}
    /\ fret = <<>>

\* the default of deep_dive_parallel's max_workers; deep_dive_all takes none
DefaultMaxWorkers == 3

\* C17: during fan-out every candidate's enrichment is started exactly once
\* and never more than max_workers enrichment calls are in flight, in
\* deep_dive_parallel and in deep_dive_all.
C17_BoundedFanout ==
    /\ Cardinality(Running) <= max_workers
    /\ dpc = "done" =>
          /\ submitted = NCompanies
          /\ \A i \in 1..NCompanies : fut[i] \in {"done", "raised"}
    /\ Cardinality(InFlight) <= DefaultMaxWorkers
    /\ ppc = "returned" => \A i \in 1..NFound : task[i] = "done"

\* the cleaned copy of one result record
Finalized(before, after) ==
    /\ DOMAIN after = DOMAIN before
    /\ \A k \in DOMAIN before :
          after[k] = IF before[k] = NoneV THEN "N/A" ELSE before[k]

\* C18: the Finalizing step replaces every null value of every record by
\* "N/A", keeps every other value and every key, and the complete event
\* carries the same records in the same order.
C18_FinalizingSubstitution ==
    [][ /\ (spc = "clean" /\ spc' = "final") =>
              /\ Len(sresults'.items) = Len(sresults.items)
              /\ \A i \in 1..Len(sresults.items) :
                    Finalized(sresults.items[i].d, sresults'.items[i].d)
        /\ (spc = "final" /\ spc' = "closed") =>
              /\ events'[Len(events')].event = "complete"
              /\ events'[Len(events')].data.results = ItemDicts(sresults.items)
      ]_vars

C18_Witness ==
    /\ entry = "run_scout_stub"
    /\ spc = "closed"
    /\ events[Len(events)].event = "complete"
    /\ Len(events[Len(events)].data.results) = 2
    /\ events[Len(events)].data.results[1] = OtherDict
    /\ events[Len(events)].data.results[2]["ARR"] = "N/A"
    /\ events[Len(events)].data.results[2]["name"] = "Acme"

HasStatus(tag) ==
    \E i \in 1..Len(events) :
        events[i].event = "status" /\ events[i].data[1] = tag

\* C19: the status events follow the phases: one on acceptance before any
\* outbound call, one with the candidate count after discovery returns and
\* before enrichment starts, one after the gather and before the terminal
\* event.
C19_StatusPhaseOrder ==
    entry = "run_scout" =>
        /\ ppc # "idle" => HasStatus("starting")
        /\ InFlight # {} => HasStatus("found")
        /\ TerminalIndexes # {} => HasStatus("complete-found")

\* C20: every run of the stream eventually emits its terminal event.
C20_StreamTerminates == <>(TerminalIndexes # {})

\* what the gathering loop records for task i when no task touches anything
\* but its own company
Expected(i) == IF fut[i] = "done" THEN RealData(i) ELSE companies[i]

\* C21: the enrichment tasks share no mutable state: no step changes the
\* input candidates or the attribute list, only the gathering thread's
\* steps change the results list, and the records returned are, as a
\* multiset, those of the tasks taken one by one, for every interleaving and
\* completion order.
C21_TasksShareNoState ==
    /\ [][ /\ companies' = companies
           /\ attributes' = attributes
           /\ results' # results => <<Gather>>_vars ]_vars
    /\ [](dpc = "done" =>
            \A i \in 1..NCompanies :
               Count(ret, Expected(i)) =
                  Cardinality({k \in 1..NCompanies : Expected(k) = Expected(i)}))

C21_Witness ==
    /\ dpc = "done"
    /\ NCompanies = 3
    /\ max_workers = 2
    /\ Done = 1..3
    /\ ret[1] = Expected(3)
    /\ ret[3] = Expected(1)
    /\ Expected(1) # Expected(3)

\* C25: deep_dive_all returns one entry per company, entry i being the
\* response of companies[i]'s deep dive or None when it raised, whatever the
\* order in which the tasks complete.
C25_GatherIsPositional ==
    ppc \in {"fanout", "returned"} =>
        /\ Len(details) = NFound
        /\ \A i \in 1..NFound :
              /\ task[i] # "done" => details[i] = <<>>
              /\ details[i] # <<>> => details[i][1] \in Responses(found[i])

C25_Witness ==
    /\ ppc = "fanout"
    /\ NFound = 3
    /\ task[1] = "running"
    /\ task[2] = "done" /\ details[2] = <<>>
    /\ task[3] = "done" /\ details[3] # <<>>
    /\ details[3][1].company = found[3].name
    /\ found[3] # found[2]

IsPrefix(s, t) == Len(s) <= Len(t) /\ \A i \in 1..Len(s) : s[i] = t[i]

\* the events of one request served alone, up to the awaited pipeline call
AloneHead(req) ==
    << StatusEvent("starting", <<>>),
       StatusEvent("searching", BuildThesis(req)),
       StatusEvent("running", <<>>) >>

\* the events of one request served alone when the pipeline call delivers up
AloneEvents(req, up) ==
    LET res == IF up = PyRaise THEN PyList(<<>>) ELSE Normalize(up)
    IN AloneHead(req)
       \o (IF HasLen(res)
           THEN <<StatusEvent("found", <<Len(res.items)>>)>>
                \o (IF AllDicts(res)
                    THEN << StatusEvent("complete-found", <<Len(res.items)>>),
                            CompleteEvent(ItemDicts(CleanItems(res.items))) >>
                    ELSE <<>>)
           ELSE <<>>)

\* C22: of two requests served concurrently, each emits the events it would
\* have emitted alone for its own request and its own upstream response.
C22_RunsAreIndependent ==
    entry = "two_requests" =>
        \A r \in 1..2 :
           LET f == runs[r]
           IN IF f.upstream = <<>>
              THEN IsPrefix(f.events, AloneHead(f.request))
              ELSE /\ IsPrefix(f.events, AloneEvents(f.request, f.upstream[1]))
                   /\ FrameEnded(f) =>
                         f.events = AloneEvents(f.request, f.upstream[1])

C22_Witness ==
    /\ entry = "two_requests"
    /\ runs[1].spc = "closed" /\ runs[2].spc = "closed"
    /\ runs[1].upstream # runs[2].upstream
    /\ Len(runs[1].events) = 6 /\ Len(runs[2].events) = 6
    /\ runs[1].events[4] # runs[2].events[4]
    /\ runs[1].events[6] # runs[2].events[6]

ChatTerminals == {i \in 1..Len(cevents) : cevents[i].event \in {"complete", "error"}}

\* C23: chat_stream_generator emits status events and then exactly one
\* terminal event, complete with success true or, when the agent invocation
\* or the response handling raised, error with success false; nothing follows
\* the terminal event.
C23_ChatTerminalSingularity ==
    /\ Cardinality(ChatTerminals) <= 1
    /\ ChatTerminals \subseteq {Len(cevents)}
    /\ ChatTerminals # {} <=> cpc = "closed"
    /\ \A i \in ChatTerminals :
          /\ cevents[i].event = "complete" =>
                ~InvokeFails(agentOut) /\ cevents[i].data[1].success = TRUE
          /\ cevents[i].event = "error" =>
                InvokeFails(agentOut) /\ cevents[i].data[1].success = FALSE

C23_Witness ==
    /\ cpc = "closed"
    /\ agentOut.kind = "not_a_mapping"
    /\ Len(cevents) = 3
    /\ cevents[3].event = "error"

\* C30: for the same request and agent outcome the terminal payload of
\* chat_stream_generator equals the body chat_sync returns, and both pass the
\* agent the user and assistant entries of the history, in order, followed
\* by the current message.
C30_StreamMatchesSync ==
    /\ cpc = "closed" /\ syncRet # <<>> =>
          /\ cevents[Len(cevents)].data[1] = syncRet[1]
          /\ ~InvokeFails(agentOut) => cmessages = syncMessages
    /\ \A msgs \in ({cmessages} \cup {syncMessages}) \ {<<>>} :
          LET kept == {i \in 1..Len(chatReq.history) :
                          chatReq.history[i]["role"] \in {"user", "assistant"}}
              n == Len(msgs)
          IN /\ n = Cardinality(kept) + 1
             /\ msgs[n] = [role |-> "user", content |-> chatReq.message]
             /\ \A i \in 1..(n - 1) : msgs[i].role \in {"user", "assistant"}
             /\ \E f \in [1..(n - 1) -> kept] :
                   /\ \A i, j \in 1..(n - 1) : i < j => f[i] < f[j]
                   /\ \A i \in 1..(n - 1) :
                         /\ msgs[i].role = chatReq.history[f[i]]["role"]
                         /\ msgs[i].content =
                               Get(chatReq.history[f[i]], "content", "")

C30_Witness ==
    /\ cpc = "closed" /\ syncRet # <<>>
    /\ syncRet[1].tool_used = "linkup_search"
    /\ syncRet[1].response = <<"Found Acme">>
    /\ Len(chatReq.history) = 2
    /\ chatReq.history[1]["role"] = "system"
    /\ Len(cmessages) = 2

\* the well-formed values a reply contains, as <<start, end>>
WellFormedSpans(content) ==
    {s \in (1..Len(content)) \X (1..Len(content)) :
        s[1] <= s[2] /\ WellFormed(SubSeq(content, s[1], s[2]))}

FirstWellFormed(content) ==
    LET s == CHOOSE s \in WellFormedSpans(content) :
                \A t \in WellFormedSpans(content) : s[1] <= t[1]
    IN SubSeq(content, s[1], s[2])

\* C24: a reply that contains a well-formed JSON value yields the first such
\* value, whatever brackets stand before or after it; a reply without one
\* yields "no data".
C24_FirstWellFormedValue ==
    jout # <<>> =>
        IF WellFormedSpans(reply) = {}
        THEN jout[1] = <<>>
        ELSE /\ jsite = "deep_dive" => jout[1] = ObjectOf(FirstWellFormed(reply))
             /\ jsite = "discovery" => jout[1] = ArrayOf(FirstWellFormed(reply))

\* C26: the entries of conversation_history have pairwise distinct ids, and
\* current_conversation_id is None or the id of exactly one entry.
C26_ConversationIdsDistinct ==
    /\ \A i, j \in 1..Len(conversation_history) :
          i # j => conversation_history[i].id # conversation_history[j].id
    /\ current_conversation_id # <<>> =>
          Cardinality({i \in 1..Len(conversation_history) :
                          conversation_history[i].id = current_conversation_id[1]}) = 1

\* the positions an entry with serial s has in the history h with serials c
EntryOf(c, s) == {i \in 1..Len(c) : c[i] = s}

\* C27: only the entry of the conversation on screen changes its messages,
\* and choosing a conversation in the sidebar puts the messages saved for it
\* on screen.
C27_NoConversationOverwritten ==
    [][ /\ \A i \in 1..Len(created) : \A j \in EntryOf(created', created[i]) :
              conversation_history'[j].messages # conversation_history[i].messages
                 => created[i] = active
        /\ (active' # active /\ EntryOf(created, active') # {}) =>
              \A j \in EntryOf(created', active') :
                 messages' = conversation_history'[j].messages ]_vars

\* the user message a run of the processing block answers
Pending == messages[Len(messages)].content

C29_SendSendsTheBox ==
    [][ Send => messages'[Len(messages')] = UserMsg(user_input) ]_vars

====
